---- MODULE Spec2Model ----
(***************************************************************************)
(* Smart weather dashboard: the three drawing surfaces (WeatherCanvas,     *)
(* RouteCanvas, WeatherMap) and the App component that feeds them.         *)
(*                                                                         *)
(* React is modelled the way it schedules the code: a state setter queues  *)
(* an update, a later commit applies the queued updates (the re-render),   *)
(* and the passive effects of that commit (useEffect cleanups and bodies)  *)
(* run in a later task.  Browser callbacks (IntersectionObserver, resize,  *)
(* requestAnimationFrame, timers) are separate actions and can run between *)
(* any two of these steps.                                                 *)
(*                                                                         *)
(* Units: animation time in hundredths (0.02 is 2); line width in tenths   *)
(* (2.5 is 25); latitude and longitude in thousandths of a degree (0.001   *)
(* is 1); projected pixel coordinates are exact fractions num/den.         *)
(***************************************************************************)
EXTENDS Integers, Sequences, FiniteSets, TLC

(***************************************************************************)
(* Bounds of the model.                                                    *)
(***************************************************************************)
MaxAnimTime == 4

(***************************************************************************)
(* Values shared by the surfaces.                                          *)
(***************************************************************************)
\* networkInfo as the surfaces read it: "absent" is networkInfo == null,
\* every other value is networkInfo.effectiveType.
NetValues == {"absent", "slow-2g", "2g", "3g", "4g", "unknown"}

\* The network values the parent passes while a component's life cycle is
\* explored (one per row of the quality table).
LifeNets == {"absent", "2g", "3g"}

\* Widths of the container (getBoundingClientRect().width) a resize can see.
W_RectWidths == {1000}

Max(a, b) == IF a >= b THEN a ELSE b
Min(a, b) == IF a <= b THEN a ELSE b

NoSize == [width |-> 0, height |-> 0]

\* weatherData prop of the weather and map surfaces: no sample, or a sample
\* (condition and wind speed are what the paints branch on).
NoData == [present |-> FALSE, condition |-> "none", windSpeed |-> 0]
WeatherSamples ==
  { [present |-> TRUE, condition |-> "sunny", windSpeed |-> 5],
    [present |-> TRUE, condition |-> "rainy", windSpeed |-> 0] }

\* The (weatherData, weatherHistory.length) pairs App can pass: no sample and
\* an empty history before the first fetch, a sample and a non-empty history
\* afterwards.
W_DataProps ==
  { << NoData, 0 >> } \cup { << d, h >> : d \in WeatherSamples, h \in 1..2 }

\* The history lengths the paint check draws: below the graph guard, at it,
\* around the graph window and at the history limit of App.
PaintHistLens == {1, 2, 19, 20, 21, 24}

\* The (weatherData, weatherHistory.length) pairs of the paint check.
W_PaintDataProps ==
  { << NoData, 0 >> }
    \cup { << d, h >> : d \in WeatherSamples, h \in PaintHistLens }

VARIABLES
  surface,          \* which surface component this behaviour runs
  \* ---- WeatherCanvas ----
  w_mounted,        \* the component instance exists
  w_pending,        \* passive effects not yet run: "none", "mount", "update", "unmount"
  w_weatherData,    \* props
  w_histLen,        \* props: weatherHistory.length
  w_networkInfo,    \* props
  w_isVisible,      \* useState isVisible (committed)
  w_canvasSize,     \* useState canvasSize (committed)
  w_queue,          \* queued setIsVisible / setCanvasSize calls
  w_observing,      \* IntersectionObserver connected
  w_listening,      \* window resize listener registered
  w_hasCleanup,     \* the last run of the render effect returned its cleanup
  w_animationRef,   \* animationRef.current (0 is undefined)
  w_rafs,           \* outstanding requestAnimationFrame requests
  w_frame,          \* what the last paint left on the canvas
  w_painted,        \* the last action ran a paint
  w_hiddenSince     \* isVisible has been false since the last paint

wvars == << w_mounted, w_pending, w_weatherData, w_histLen, w_networkInfo,
            w_isVisible, w_canvasSize, w_queue, w_observing, w_listening,
            w_hasCleanup, w_animationRef, w_rafs, w_frame, w_painted,
            w_hiddenSince >>

\* ---- RouteCanvas ----
VARIABLES
  r_mounted,         \* the component instance exists
  r_pending,         \* passive effects not yet run
  r_obsDirty,        \* the pending update changed route (observer effect)
  r_renderDirty,     \* the pending update changed a render effect dependency
  r_route,           \* props
  r_currentPosition, \* props
  r_networkInfo,     \* props
  r_canvasSize,      \* useState canvasSize
  r_visibleSegments, \* useState visibleSegments, the rendering window
  r_queue,           \* queued setVisibleSegments / setCanvasSize calls
  r_observer,        \* the route the connected observer's callback closes over
  r_listening,       \* window resize listener registered
  r_frame,           \* what the last paint left on the canvas
  r_painted          \* the last action ran a paint

rvars == << r_mounted, r_pending, r_obsDirty, r_renderDirty, r_route,
            r_currentPosition, r_networkInfo, r_canvasSize, r_visibleSegments,
            r_queue, r_observer, r_listening, r_frame, r_painted >>

\* ---- WeatherMap ----
VARIABLES
  m_mounted,       \* the component instance exists
  m_pending,       \* passive effects not yet run
  m_location,      \* props: a location is set
  m_weatherData,   \* props
  m_networkInfo,   \* props
  m_isVisible,     \* useState isVisible
  m_canvasSize,    \* useState canvasSize
  m_queue,         \* queued setIsVisible / setCanvasSize calls
  m_observing,     \* IntersectionObserver connected
  m_listening,     \* window resize listener registered
  m_frame,         \* what the last paint left on the canvas
  m_painted        \* the last action ran a paint

mvars == << m_mounted, m_pending, m_location, m_weatherData, m_networkInfo,
            m_isVisible, m_canvasSize, m_queue, m_observing, m_listening,
            m_frame, m_painted >>

\* ---- App ----
VARIABLES
  a_started,          \* the mount render and its effects have run
  a_hasConnection,    \* 'connection' in navigator
  a_connType,         \* navigator.connection.effectiveType
  a_currentWeather,   \* useState currentWeather (NoSample is null)
  a_weatherHistory,   \* useState weatherHistory
  a_location,         \* useState location ("none" is null)
  a_networkInfo,      \* useState networkInfo: "null", "live" (the connection
                      \* object itself), "copy" ({...connection} without
                      \* an own effectiveType) or the effectiveType that
                      \* {...connection} copied
  a_isLoading,        \* useState isLoading
  a_lastUpdate,       \* useState lastUpdate (-1 is null)
  a_dirtyNet,         \* networkInfo was set since the last render
  a_dirtyLoc,         \* location was set since the last render
  a_dirtyHist,        \* weatherHistory was set since the last render
  a_geo,              \* geolocation requests awaiting their callback
  a_fetches,          \* fetchWeatherData calls awaiting their result,
                      \* in the order they were made
  a_timer,            \* the auto-update interval: the location it closes over
  a_tasks,            \* scheduled background tasks: the weatherHistory.length
                      \* each closes over, oldest first
  a_trends,           \* localStorage has weatherTrends
  a_now,              \* Date.now()
  a_nextId            \* identity of the next sample object

avars == << a_started, a_hasConnection, a_connType,
            a_currentWeather, a_weatherHistory, a_location, a_networkInfo,
            a_isLoading, a_lastUpdate, a_dirtyNet, a_dirtyLoc, a_dirtyHist,
            a_geo, a_fetches, a_timer, a_tasks, a_trends, a_now, a_nextId >>

\* ---- LocationSearch ----
VARIABLES
  l_mounted,          \* the component instance exists
  l_recentLocations,  \* useState recentLocations (<< >> while not mounted)
  l_persisted         \* localStorage item 'recentWeatherLocations'

lvars == << l_mounted, l_recentLocations, l_persisted >>


(***************************************************************************)
(* WeatherCanvas                                                           *)
(***************************************************************************)
AnimStep == 2

W_InitialSize == [width |-> 400, height |-> 300]

\* updateCanvasSize: the size computed from the container width.
W_SizeOf(rectWidth) ==
  [width  |-> Max(300, rectWidth - 32),
   height |-> Max(200, Min(400, (rectWidth * 6) \div 10))]

NoQueue == [vis |-> "none", size |-> NoSize]

W_NoFrame ==
  [painted |-> FALSE, t |-> 0, placeholder |-> FALSE, particleCount |-> 0,
   animationQuality |-> 0, net |-> "absent", graph |-> FALSE,
   graphSamples |-> << >>, readouts |-> FALSE]

\* The particle count / animation quality selection of animate.
\* animationQuality is in hundredths.
W_Quality(net) ==
  IF net = "slow-2g" \/ net = "2g"
    THEN [particleCount |-> 20, animationQuality |-> 50]
    ELSE IF net = "3g"
      THEN [particleCount |-> 35, animationQuality |-> 75]
      ELSE [particleCount |-> 50, animationQuality |-> 100]

\* requestAnimationFrame returns a handle that is not in use anywhere.
NewRafId(rafs, ref) ==
  CHOOSE i \in 1..(Cardinality(rafs) + 2) :
    /\ i # ref
    /\ \A r \in rafs : r.id # i
    /\ \A j \in 1..(i - 1) : j = ref \/ \E r \in rafs : r.id = j

\* cancelAnimationFrame(id)
CancelRaf(rafs, id) == { r \in rafs : r.id # id }

\* slice(0, k) in place of slice(-k): the first k elements.
SliceLast_First(q, k) == SubSeq(q, 1, Min(Len(q), k))

\* Array.prototype.slice(-k): the last k elements, all of them when fewer.
SliceLast(q, k) == SubSeq(q, Max(1, Len(q) - k + 1), Len(q))

\* The number of history samples the temperature graph plots at most.
GraphWindow == 20

\* drawWeatherGraph taking the oldest samples, slice(0, 20).
drawWeatherGraph_Oldest(histLen) ==
  IF histLen < 2
    THEN << >>
    ELSE SubSeq([i \in 1..histLen |-> i], 1, Min(histLen, GraphWindow))

\* drawWeatherGraph: the positions (1-based, in the weatherHistory prop) of
\* the samples whose temperatures the stroked line joins, in drawing order.
\* No stroke is made for a history shorter than two samples.
drawWeatherGraph(histLen) ==
  IF histLen < 2
    THEN << >>
    ELSE SliceLast([i \in 1..histLen |-> i], GraphWindow)

\* The closure of one run of the render effect.
W_Closure(vis, data, histLen, net, size) ==
  [vis |-> vis, data |-> data, histLen |-> histLen, net |-> net, size |-> size]

\* animate requesting the next frame after the placeholder as well.
W_Animate_PlaceholderRearms(cl, t, rafs, ref, frame) ==
  IF ~cl.vis
    THEN [rafs |-> rafs, ref |-> ref, frame |-> frame, painted |-> FALSE]
    ELSE
      LET t2 == t + AnimStep
          q  == W_Quality(cl.net)
          id == NewRafId(rafs, ref)
      IN [rafs |-> rafs \cup {[id |-> id, cl |-> cl, t |-> t2]},
          ref |-> id,
          painted |-> TRUE,
          frame |-> IF ~cl.data.present
                      THEN [painted |-> TRUE, t |-> t2, placeholder |-> TRUE,
                            particleCount |-> 0, animationQuality |-> 0,
                            net |-> cl.net, graph |-> FALSE,
                            graphSamples |-> << >>, readouts |-> FALSE]
                      ELSE [painted |-> TRUE, t |-> t2, placeholder |-> FALSE,
                            particleCount |-> q.particleCount,
                            animationQuality |-> q.animationQuality,
                            net |-> cl.net, graph |-> cl.histLen > 1,
                            graphSamples |-> IF cl.histLen > 1
                                               THEN drawWeatherGraph(cl.histLen)
                                               ELSE << >>,
                            readouts |-> TRUE]]

\* One call of animate for the closure cl whose animationTime is t.
\* Yields the requests, animationRef, the canvas and whether it painted.
W_Animate(cl, t, rafs, ref, frame) ==
  IF ~cl.vis
    THEN [rafs |-> rafs, ref |-> ref, frame |-> frame, painted |-> FALSE]
    ELSE
      LET t2 == t + AnimStep
          q  == W_Quality(cl.net)
          id == NewRafId(rafs, ref)
      IN IF ~cl.data.present
           THEN [rafs |-> rafs, ref |-> ref, painted |-> TRUE,
                 frame |-> [painted |-> TRUE, t |-> t2, placeholder |-> TRUE,
                            particleCount |-> 0, animationQuality |-> 0,
                            net |-> cl.net, graph |-> FALSE,
                            graphSamples |-> << >>, readouts |-> FALSE]]
           ELSE [rafs |-> IF q.animationQuality > 0
                            THEN rafs \cup {[id |-> id, cl |-> cl, t |-> t2]}
                            ELSE rafs,
                 ref |-> IF q.animationQuality > 0 THEN id ELSE ref,
                 painted |-> TRUE,
                 frame |-> [painted |-> TRUE, t |-> t2, placeholder |-> FALSE,
                            particleCount |-> q.particleCount,
                            animationQuality |-> q.animationQuality,
                            net |-> cl.net, graph |-> cl.histLen > 1,
                            graphSamples |-> IF cl.histLen > 1
                                               THEN drawWeatherGraph(cl.histLen)
                                               ELSE << >>,
                            readouts |-> TRUE]]

\* The cleanup without its cancelAnimationFrame call.
W_RenderCleanup_NoCancel(rafs, ref) == rafs

\* The cleanup the render effect returns.
W_RenderCleanup(rafs, ref) ==
  IF ref # 0 THEN CancelRaf(rafs, ref) ELSE rafs

\* The parent mounts the component (App renders it when isLoading is false).
W_Mount ==
  /\ surface = "weather"
  /\ UNCHANGED << rvars, mvars, avars, lvars >>
  /\ ~w_mounted /\ w_pending = "none"
  /\ \E dp \in W_DataProps, n \in LifeNets :
       /\ w_weatherData' = dp[1]
       /\ w_histLen' = dp[2]
       /\ w_networkInfo' = n
  /\ w_mounted' = TRUE
  /\ w_pending' = "mount"
  /\ w_isVisible' = TRUE
  /\ w_canvasSize' = W_InitialSize
  /\ w_queue' = NoQueue
  /\ w_animationRef' = 0
  /\ w_frame' = W_NoFrame
  /\ w_painted' = FALSE
  /\ w_hiddenSince' = FALSE
  /\ UNCHANGED << surface, w_observing, w_listening, w_hasCleanup, w_rafs >>

\* The IntersectionObserver callback: setIsVisible(entry.isIntersecting).
W_ObserverCallback ==
  /\ surface = "weather"
  /\ UNCHANGED << rvars, mvars, avars, lvars >>
  /\ w_observing
  /\ \E b \in BOOLEAN :
       w_queue' = IF w_mounted
                    THEN [w_queue EXCEPT !.vis = IF b THEN "true" ELSE "false"]
                    ELSE w_queue
  /\ w_painted' = FALSE
  /\ UNCHANGED << surface, w_mounted, w_pending, w_weatherData, w_histLen,
                  w_networkInfo, w_isVisible, w_canvasSize, w_observing,
                  w_listening, w_hasCleanup, w_animationRef, w_rafs, w_frame,
                  w_hiddenSince >>

\* The window resize listener: updateCanvasSize.
W_Resize ==
  /\ surface = "weather"
  /\ UNCHANGED << rvars, mvars, avars, lvars >>
  /\ w_listening
  /\ \E rw \in W_RectWidths :
       w_queue' = IF w_mounted
                    THEN [w_queue EXCEPT !.size = W_SizeOf(rw)]
                    ELSE w_queue
  /\ w_painted' = FALSE
  /\ UNCHANGED << surface, w_mounted, w_pending, w_weatherData, w_histLen,
                  w_networkInfo, w_isVisible, w_canvasSize, w_observing,
                  w_listening, w_hasCleanup, w_animationRef, w_rafs, w_frame,
                  w_hiddenSince >>

\* The re-render that applies the queued state updates.  The render effect
\* has a changed dependency when isVisible changed or canvasSize was set
\* (setCanvasSize always passes a new object).
W_Commit ==
  /\ surface = "weather"
  /\ UNCHANGED << rvars, mvars, avars, lvars >>
  /\ w_mounted /\ w_pending = "none"
  /\ w_queue # NoQueue
  /\ LET vis  == IF w_queue.vis = "none" THEN w_isVisible
                 ELSE w_queue.vis = "true"
         size == IF w_queue.size = NoSize THEN w_canvasSize ELSE w_queue.size
         changed == vis # w_isVisible \/ w_queue.size # NoSize
     IN /\ w_isVisible' = vis
        /\ w_canvasSize' = size
        /\ w_pending' = IF changed THEN "update" ELSE "none"
        /\ w_hiddenSince' = (w_hiddenSince \/ ~vis)
  /\ w_queue' = NoQueue
  /\ w_painted' = FALSE
  /\ UNCHANGED << surface, w_mounted, w_weatherData, w_histLen, w_networkInfo,
                  w_observing, w_listening, w_hasCleanup, w_animationRef,
                  w_rafs, w_frame >>

\* The parent re-renders with new props (a data refresh or a network change);
\* queued state updates are applied by the same commit.
W_PropsChange ==
  /\ surface = "weather"
  /\ UNCHANGED << rvars, mvars, avars, lvars >>
  /\ w_mounted /\ w_pending = "none"
  /\ \E dp \in W_DataProps, n \in LifeNets :
       /\ << dp[1], dp[2], n >> # << w_weatherData, w_histLen, w_networkInfo >>
       /\ w_weatherData' = dp[1]
       /\ w_histLen' = dp[2]
       /\ w_networkInfo' = n
  /\ LET vis  == IF w_queue.vis = "none" THEN w_isVisible
                 ELSE w_queue.vis = "true"
         size == IF w_queue.size = NoSize THEN w_canvasSize ELSE w_queue.size
     IN /\ w_isVisible' = vis
        /\ w_canvasSize' = size
        /\ w_hiddenSince' = (w_hiddenSince \/ ~vis)
  /\ w_pending' = "update"
  /\ w_queue' = NoQueue
  /\ w_painted' = FALSE
  /\ UNCHANGED << surface, w_mounted, w_observing, w_listening, w_hasCleanup,
                  w_animationRef, w_rafs, w_frame >>

\* The parent removes the component.
W_Unmount ==
  /\ surface = "weather"
  /\ UNCHANGED << rvars, mvars, avars, lvars >>
  /\ w_mounted /\ w_pending = "none"
  /\ w_mounted' = FALSE
  /\ w_pending' = "unmount"
  /\ w_weatherData' = NoData
  /\ w_histLen' = 0
  /\ w_networkInfo' = "absent"
  /\ w_isVisible' = TRUE
  /\ w_canvasSize' = W_InitialSize
  /\ w_queue' = NoQueue
  /\ w_frame' = W_NoFrame
  /\ w_painted' = FALSE
  /\ w_hiddenSince' = FALSE
  /\ UNCHANGED << surface, w_observing, w_listening, w_hasCleanup,
                  w_animationRef, w_rafs >>

\* The passive effects of the last commit.
\*   mount:   observer effect, resize effect (updateCanvasSize once, then
\*            the listener) and the render effect;
\*   update:  cleanup of the previous render effect, then the render effect;
\*   unmount: the three cleanups.
W_Effects ==
  /\ surface = "weather"
  /\ UNCHANGED << rvars, mvars, avars, lvars >>
  /\ w_pending # "none"
  /\ LET afterCleanup ==
           IF w_pending # "mount" /\ w_hasCleanup
             THEN W_RenderCleanup(w_rafs, w_animationRef)
             ELSE w_rafs
         cl == W_Closure(w_isVisible, w_weatherData, w_histLen,
                         w_networkInfo, w_canvasSize)
         run == W_Animate(cl, 0, afterCleanup, w_animationRef, w_frame)
     IN IF w_pending = "unmount"
          THEN /\ w_rafs' = afterCleanup
               /\ w_observing' = FALSE
               /\ w_listening' = FALSE
               /\ w_hasCleanup' = FALSE
               /\ w_painted' = FALSE
               /\ UNCHANGED << w_animationRef, w_frame, w_queue,
                               w_hiddenSince >>
          ELSE /\ w_observing' = TRUE
               /\ w_listening' = TRUE
               /\ w_queue' = IF w_pending = "mount"
                               THEN [w_queue EXCEPT !.size =
                                       W_SizeOf(CHOOSE rw \in W_RectWidths :
                                                  \A o \in W_RectWidths : rw <= o)]
                               ELSE w_queue
               /\ IF ~w_isVisible
                    THEN /\ w_rafs' = afterCleanup
                         /\ w_hasCleanup' = FALSE
                         /\ w_painted' = FALSE
                         /\ UNCHANGED << w_animationRef, w_frame,
                                         w_hiddenSince >>
                    ELSE /\ w_rafs' = run.rafs
                         /\ w_animationRef' = run.ref
                         /\ w_frame' = run.frame
                         /\ w_painted' = run.painted
                         /\ w_hasCleanup' = TRUE
                         /\ w_hiddenSince' =
                              IF run.painted THEN FALSE ELSE w_hiddenSince
  /\ w_pending' = "none"
  /\ UNCHANGED << surface, w_mounted, w_weatherData, w_histLen, w_networkInfo,
                  w_isVisible, w_canvasSize >>

\* An outstanding animation frame request fires: animate runs in the closure
\* that requested it.  A paint of a removed component hits a detached canvas.
W_Frame ==
  /\ surface = "weather"
  /\ UNCHANGED << rvars, mvars, avars, lvars >>
  /\ \E r \in w_rafs :
       /\ r.t < MaxAnimTime
       /\ LET run == W_Animate(r.cl, r.t, w_rafs \ {r}, w_animationRef, w_frame)
          IN /\ w_rafs' = run.rafs
             /\ w_animationRef' = run.ref
             /\ w_frame' = IF w_mounted THEN run.frame ELSE w_frame
             /\ w_painted' = run.painted
             /\ w_hiddenSince' = IF run.painted /\ w_mounted
                                   THEN ~w_isVisible
                                   ELSE w_hiddenSince
  /\ UNCHANGED << surface, w_mounted, w_pending, w_weatherData, w_histLen,
                  w_networkInfo, w_isVisible, w_canvasSize, w_queue,
                  w_observing, w_listening, w_hasCleanup >>

W_Init ==
  /\ w_mounted = FALSE
  /\ w_pending = "none"
  /\ w_weatherData = NoData
  /\ w_histLen = 0
  /\ w_networkInfo = "absent"
  /\ w_isVisible = TRUE
  /\ w_canvasSize = W_InitialSize
  /\ w_queue = NoQueue
  /\ w_observing = FALSE
  /\ w_listening = FALSE
  /\ w_hasCleanup = FALSE
  /\ w_animationRef = 0
  /\ w_rafs = {}
  /\ w_frame = W_NoFrame
  /\ w_painted = FALSE
  /\ w_hiddenSince = FALSE

W_Next ==
  \/ W_Mount
  \/ W_ObserverCallback
  \/ W_Resize
  \/ W_Commit
  \/ W_PropsChange
  \/ W_Unmount
  \/ W_Effects
  \/ W_Frame

(***************************************************************************)
(* RouteCanvas: the frame one run of the render effect paints.             *)
(***************************************************************************)
\* An optional value is the empty sequence or a one-element sequence.
None == << >>
Some(x) == << x >>

\* A Position: lat and lng in thousandths of a degree; speed (m/s) is
\* undefined or a non-negative binary64 number.
NoPosition == [present |-> FALSE, lat |-> 0, lng |-> 0, speed |-> None]

R_InitialSize == [width |-> 600, height |-> 400]

R_SizeOf(rectWidth) ==
  [width  |-> Max(400, rectWidth - 32),
   height |-> Max(300, Min(500, (rectWidth * 6) \div 10))]

padding == 40

\* 0.001 degrees, the span substituted for a zero spread.
MinSpan == 1

SeqMin(q) == CHOOSE m \in { q[i] : i \in 1..Len(q) } :
               \A i \in 1..Len(q) : m <= q[i]
SeqMax(q) == CHOOSE m \in { q[i] : i \in 1..Len(q) } :
               \A i \in 1..Len(q) : m >= q[i]

\* minLat, maxLat, minLng, maxLng and the two ranges of a non-empty window;
\* "a - b || 0.001" is 0.001 when the difference is 0.
R_Bounds(segs) ==
  LET lats == [i \in 1..Len(segs) |-> segs[i].lat]
      lngs == [i \in 1..Len(segs) |-> segs[i].lng]
      minLat == SeqMin(lats)
      maxLat == SeqMax(lats)
      minLng == SeqMin(lngs)
      maxLng == SeqMax(lngs)
  IN [minLat |-> minLat, maxLat |-> maxLat,
      minLng |-> minLng, maxLng |-> maxLng,
      latRange |-> IF maxLat - minLat = 0 THEN MinSpan ELSE maxLat - minLat,
      lngRange |-> IF maxLng - minLng = 0 THEN MinSpan ELSE maxLng - minLng]

\* toCanvasCoords without the inversion of the latitude axis.
toCanvasCoords_NoFlip(b, size, lat, lng) ==
  [xn |-> padding * b.lngRange + (lng - b.minLng) * (size.width - 2 * padding),
   xd |-> b.lngRange,
   yn |-> padding * b.latRange + (lat - b.minLat) * (size.height - 2 * padding),
   yd |-> b.latRange]

\* toCanvasCoords with the padding subtracted once instead of twice.
toCanvasCoords_OnePadding(b, size, lat, lng) ==
  [xn |-> padding * b.lngRange + (lng - b.minLng) * (size.width - padding),
   xd |-> b.lngRange,
   yn |-> padding * b.latRange + (b.maxLat - lat) * (size.height - padding),
   yd |-> b.latRange]

\* toCanvasCoords as exact fractions: x = xn / xd and y = yn / yd.
toCanvasCoords(b, size, lat, lng) ==
  [xn |-> padding * b.lngRange + (lng - b.minLng) * (size.width - 2 * padding),
   xd |-> b.lngRange,
   yn |-> padding * b.latRange + (b.maxLat - lat) * (size.height - 2 * padding),
   yd |-> b.latRange]

\* The line quality selection without its 3g branch.
R_Quality_NoThreeG(net) ==
  IF net # "absent" /\ (net = "slow-2g" \/ net = "2g")
    THEN [lineWidth |-> 20, segmentDetail |-> 3]
    ELSE [lineWidth |-> 30, segmentDetail |-> 1]

\* Line quality selection; lineWidth in tenths.
R_Quality(net) ==
  IF net # "absent" /\ (net = "slow-2g" \/ net = "2g")
    THEN [lineWidth |-> 20, segmentDetail |-> 3]
    ELSE IF net # "absent" /\ net = "3g"
      THEN [lineWidth |-> 25, segmentDetail |-> 2]
      ELSE [lineWidth |-> 30, segmentDetail |-> 1]

\* The loop bounded by the number of whole strides: it stops one short when
\* the stride does not divide the length.
LoopIndices_WholeStrides(i, n, step) ==
  [j \in 1..((n - i) \div step) |-> i + (j - 1) * step]

\* The 0-based indices 0, step, 2*step, ... below n that a for loop visits.
RECURSIVE LoopIndices(_, _, _)
LoopIndices(i, n, step) ==
  IF i >= n THEN << >> ELSE << i >> \o LoopIndices(i + step, n, step)

(***************************************************************************)
(* The JavaScript numbers of the speed classification.  A positive number  *)
(* is [man, exp] with value man * 2^exp, where man is the 53-bit           *)
(* significand in five 12-bit limbs, least significant limb first; zero    *)
(* has an all-zero significand.                                            *)
(***************************************************************************)
LimbBase == 4096

Zero == [man |-> << 0, 0, 0, 0, 0 >>, exp |-> 0]

\* The literals 3.6, 15 and 25 (0x400CCCCCCCCCCCCD, 0x402E000000000000,
\* 0x4039000000000000).
ThreePointSix ==
  [man |-> << \hCCD, \hCCC, \hCCC, \hCCC, \h1C >>, exp |-> -51]
Fifteen == [man |-> << 0, 0, 0, 0, 30 >>, exp |-> -49]
TwentyFive == [man |-> << 0, 0, 0, 0, 25 >>, exp |-> -48]

\* Column k of the schoolbook product of two five-limb significands.
BigCol(a, b, k) ==
  LET t(i) == IF (k - i) \in 0..4 THEN a[i + 1] * b[k - i + 1] ELSE 0
  IN t(0) + t(1) + t(2) + t(3) + t(4)

RECURSIVE BigCarry(_, _, _)
BigCarry(cols, k, c) ==
  IF k > Len(cols) THEN << >>
  ELSE LET v == cols[k] + c
       IN << v % LimbBase >> \o BigCarry(cols, k + 1, v \div LimbBase)

\* The exact 106-bit product of two significands, in ten limbs.
BigMul(a, b) == BigCarry([k \in 1..10 |-> BigCol(a, b, k - 1)], 1, 0)

BitOf(big, i) == (big[(i \div 12) + 1] \div (2 ^ (i % 12))) % 2

RECURSIVE BitsValue(_, _, _)
BitsValue(big, from, width) ==
  IF width = 0 THEN 0
  ELSE BitOf(big, from) + 2 * BitsValue(big, from + 1, width - 1)

\* a * b for positive a and b: the exact product rounded to 53 bits, to
\* nearest, ties to even.
FMul(a, b) ==
  LET p    == BigMul(a.man, b.man)
      top  == IF BitOf(p, 105) = 1 THEN 105 ELSE 104
      low  == top - 52
      kept == [k \in 1..5 |->
                 BitsValue(p, low + 12 * (k - 1), IF k = 5 THEN 5 ELSE 12)]
      guard  == BitOf(p, low - 1) = 1
      sticky == \E j \in 0..(low - 2) : BitOf(p, j) = 1
      up   == guard /\ (sticky \/ BitOf(p, low) = 1)
      r    == BigCarry([kept EXCEPT ![1] = @ + (IF up THEN 1 ELSE 0)], 1, 0)
  IN IF r[5] >= 32
       THEN [man |-> << 0, 0, 0, 0, 16 >>, exp |-> a.exp + b.exp + low + 1]
       ELSE [man |-> r, exp |-> a.exp + b.exp + low]

\* a > b for positive a and b.
FGreater(a, b) ==
  \/ a.exp > b.exp
  \/ /\ a.exp = b.exp
     /\ \E k \in 1..5 : /\ a.man[k] > b.man[k]
                        /\ \A j \in (k + 1)..5 : a.man[j] = b.man[j]

\* The positive speeds of the model: the binary64 numbers next to 15 / 3.6 and
\* 25 / 3.6 (4.166666666666666, 4.166666666666667, 6.944444444444444,
\* 6.944444444444445, 6.9444444444444455), and 4, 5, 7 and 10 m/s.
MpsBelow15 ==
  [man |-> << \hAAA, \hAAA, \hAAA, \hAAA, \h10 >>, exp |-> -50]
MpsNearest15 ==
  [man |-> << \hAAB, \hAAA, \hAAA, \hAAA, \h10 >>, exp |-> -50]
MpsBelow25 ==
  [man |-> << \hC71, \hC71, \hC71, \hC71, \h1B >>, exp |-> -50]
MpsNearest25 ==
  [man |-> << \hC72, \hC71, \hC71, \hC71, \h1B >>, exp |-> -50]
MpsAbove25 ==
  [man |-> << \hC73, \hC71, \hC71, \hC71, \h1B >>, exp |-> -50]
FourMps == [man |-> << 0, 0, 0, 0, 16 >>, exp |-> -50]
FiveMps == [man |-> << 0, 0, 0, 0, 20 >>, exp |-> -50]
SevenMps == [man |-> << 0, 0, 0, 0, 28 >>, exp |-> -50]
TenMps == [man |-> << 0, 0, 0, 0, 20 >>, exp |-> -49]

ModelSpeeds ==
  { MpsBelow15, MpsNearest15, MpsBelow25, MpsNearest25, MpsAbove25,
    FourMps, FiveMps, SevenMps, TenMps }

\* speedKmh = pos.speed * 3.6, tabulated over the speeds of the model.
speedKmh == [speed \in ModelSpeeds |-> FMul(speed, ThreePointSix)]

\* pos.speed !== undefined && pos.speed > 0
HasPositiveSpeed(pos) == pos.speed # None /\ pos.speed[1] # Zero

\* The classification with red starting at 25 km/h.
SpeedColor_RedFrom25(speed) ==
  IF ~FGreater(TwentyFive, speedKmh[speed]) THEN "red"
  ELSE IF FGreater(speedKmh[speed], Fifteen) THEN "orange"
  ELSE "green"

\* The colour of the dot of a sample whose speed is positive.
SpeedColor(speed) ==
  IF FGreater(speedKmh[speed], TwentyFive) THEN "red"
  ELSE IF FGreater(speedKmh[speed], Fifteen) THEN "orange"
  ELSE "green"

R_NoFrame ==
  [painted |-> FALSE, placeholder |-> FALSE, layers |-> << >>,
   gridStep |-> 0, lineWidth |-> 0, segmentDetail |-> 0,
   polyline |-> << >>, polyIndices |-> << >>, start |-> << >>,
   current |-> << >>, dots |-> << >>, caption |-> "", net |-> "absent",
   size |-> NoSize]

\* The render effect body: what it paints for the rendering window segs.
R_Paint(segs, cur, size, net) ==
  IF Len(segs) = 0
    THEN [R_NoFrame EXCEPT !.painted = TRUE, !.placeholder = TRUE,
                           !.layers = << "grid", "placeholder" >>,
                           !.gridStep = 20, !.net = net, !.size = size]
    ELSE
      LET b  == R_Bounds(segs)
          q  == R_Quality(net)
          n  == Len(segs)
          pidx == IF n > 1 THEN LoopIndices(0, n, q.segmentDetail) ELSE << >>
          didx == IF n > 1
                    THEN LoopIndices(0, n, Max(1, n \div 10))
                    ELSE << >>
          dotIdx == SelectSeq(didx, LAMBDA i : HasPositiveSpeed(segs[i + 1]))
      IN [painted |-> TRUE, placeholder |-> FALSE,
          layers |-> << "grid" >>
                     \o (IF n > 1 THEN << "polyline", "start" >> ELSE << >>)
                     \o (IF cur.present THEN << "current" >> ELSE << >>)
                     \o (IF dotIdx # << >> THEN << "dots" >> ELSE << >>)
                     \o (IF net # "absent" THEN << "caption" >> ELSE << >>),
          gridStep |-> 20,
          lineWidth |-> q.lineWidth,
          segmentDetail |-> q.segmentDetail,
          polyIndices |-> pidx,
          polyline |-> [k \in 1..Len(pidx) |->
                          toCanvasCoords(b, size, segs[pidx[k] + 1].lat,
                                         segs[pidx[k] + 1].lng)],
          start |-> IF n > 1
                      THEN << toCanvasCoords(b, size, segs[1].lat, segs[1].lng) >>
                      ELSE << >>,
          current |-> IF cur.present
                        THEN << toCanvasCoords(b, size, cur.lat, cur.lng) >>
                        ELSE << >>,
          dots |-> [k \in 1..Len(dotIdx) |->
                      [at |-> toCanvasCoords(b, size, segs[dotIdx[k] + 1].lat,
                                             segs[dotIdx[k] + 1].lng),
                       color |-> SpeedColor(segs[dotIdx[k] + 1].speed[1])]],
          caption |-> IF net # "absent" THEN net ELSE "",
          net |-> net,
          size |-> size]

(***************************************************************************)
(* RouteCanvas: the component.                                             *)
(***************************************************************************)
\* Bounds on the props the parent passes in the component's life cycle.
MaxRoute == 2

\* route.slice(-50) keeps the last 50 points.
WindowLimit == 50

R_RectWidths == {400}

LifePositions ==
  { [present |-> TRUE, lat |-> 0, lng |-> 1000, speed |-> Some(FiveMps)] }

RECURSIVE SeqsUpTo(_, _)
SeqsUpTo(S, n) ==
  IF n = 0 THEN { << >> }
  ELSE LET shorter == SeqsUpTo(S, n - 1)
       IN shorter \cup { Append(q, x) : q \in { r \in shorter : Len(r) = n - 1 },
                                        x \in S }

\* The state updates queued since the last render; entry is isIntersecting
\* of the entry whose callback queued segs.
R_NoQueue == [segs |-> None, size |-> NoSize, entry |-> "none"]


R_Init ==
  /\ r_mounted = FALSE
  /\ r_pending = "none"
  /\ r_obsDirty = FALSE
  /\ r_renderDirty = FALSE
  /\ r_route = << >>
  /\ r_currentPosition = NoPosition
  /\ r_networkInfo = "absent"
  /\ r_canvasSize = R_InitialSize
  /\ r_visibleSegments = << >>
  /\ r_queue = R_NoQueue
  /\ r_observer = None
  /\ r_listening = FALSE
  /\ r_frame = R_NoFrame
  /\ r_painted = FALSE

R_Mount ==
  /\ surface = "route"
  /\ UNCHANGED << wvars, mvars, avars, lvars >>
  /\ ~r_mounted /\ r_pending = "none"
  /\ \E rt \in SeqsUpTo(LifePositions, MaxRoute),
        c \in LifePositions \cup {NoPosition}, n \in LifeNets :
       /\ r_route' = rt
       /\ r_currentPosition' = c
       /\ r_networkInfo' = n
  /\ r_mounted' = TRUE
  /\ r_pending' = "mount"
  /\ r_obsDirty' = TRUE
  /\ r_renderDirty' = TRUE
  /\ r_canvasSize' = R_InitialSize
  /\ r_visibleSegments' = << >>
  /\ r_queue' = R_NoQueue
  /\ r_frame' = R_NoFrame
  /\ r_painted' = FALSE
  /\ UNCHANGED << surface, r_observer, r_listening >>

\* The IntersectionObserver callback: the whole route when intersecting,
\* its last 50 points otherwise.
R_ObserverCallback ==
  /\ surface = "route"
  /\ UNCHANGED << wvars, mvars, avars, lvars >>
  /\ r_observer # None
  /\ \E b \in BOOLEAN :
       LET route == r_observer[1]
           segs  == IF b THEN route ELSE SliceLast(route, WindowLimit)
       IN r_queue' = IF r_mounted
                       THEN [r_queue EXCEPT !.segs = Some(segs),
                                            !.entry = IF b THEN "visible"
                                                      ELSE "hidden"]
                       ELSE r_queue
  /\ r_painted' = FALSE
  /\ UNCHANGED << surface, r_mounted, r_pending, r_obsDirty, r_renderDirty,
                  r_route, r_currentPosition, r_networkInfo, r_canvasSize,
                  r_visibleSegments, r_observer, r_listening, r_frame >>

R_Resize ==
  /\ surface = "route"
  /\ UNCHANGED << wvars, mvars, avars, lvars >>
  /\ r_listening
  /\ \E rw \in R_RectWidths :
       r_queue' = IF r_mounted THEN [r_queue EXCEPT !.size = R_SizeOf(rw)]
                  ELSE r_queue
  /\ r_painted' = FALSE
  /\ UNCHANGED << surface, r_mounted, r_pending, r_obsDirty, r_renderDirty,
                  r_route, r_currentPosition, r_networkInfo, r_canvasSize,
                  r_visibleSegments, r_observer, r_listening, r_frame >>

\* The re-render that applies the queued state updates.
R_Commit ==
  /\ surface = "route"
  /\ UNCHANGED << wvars, mvars, avars, lvars >>
  /\ r_mounted /\ r_pending = "none"
  /\ r_queue # R_NoQueue
  /\ r_visibleSegments' = IF r_queue.segs = None THEN r_visibleSegments
                          ELSE r_queue.segs[1]
  /\ r_canvasSize' = IF r_queue.size = NoSize THEN r_canvasSize
                     ELSE r_queue.size
  /\ r_queue' = R_NoQueue
  /\ r_pending' = "update"
  /\ r_obsDirty' = FALSE
  /\ r_renderDirty' = TRUE
  /\ r_painted' = FALSE
  /\ UNCHANGED << surface, r_mounted, r_route, r_currentPosition,
                  r_networkInfo, r_observer, r_listening, r_frame >>

\* The parent re-renders with new props.
R_PropsChange ==
  /\ surface = "route"
  /\ UNCHANGED << wvars, mvars, avars, lvars >>
  /\ r_mounted /\ r_pending = "none"
  /\ \E rt \in SeqsUpTo(LifePositions, MaxRoute),
        c \in LifePositions \cup {NoPosition}, n \in LifeNets :
       /\ << rt, c, n >> # << r_route, r_currentPosition, r_networkInfo >>
       /\ r_route' = rt
       /\ r_currentPosition' = c
       /\ r_networkInfo' = n
       /\ r_obsDirty' = (rt # r_route)
       /\ r_renderDirty' = (\/ c # r_currentPosition
                            \/ n # r_networkInfo
                            \/ r_queue # R_NoQueue)
  /\ r_visibleSegments' = IF r_queue.segs = None THEN r_visibleSegments
                          ELSE r_queue.segs[1]
  /\ r_canvasSize' = IF r_queue.size = NoSize THEN r_canvasSize
                     ELSE r_queue.size
  /\ r_queue' = R_NoQueue
  /\ r_pending' = "update"
  /\ r_painted' = FALSE
  /\ UNCHANGED << surface, r_mounted, r_observer, r_listening, r_frame >>

R_Unmount ==
  /\ surface = "route"
  /\ UNCHANGED << wvars, mvars, avars, lvars >>
  /\ r_mounted /\ r_pending = "none"
  /\ r_mounted' = FALSE
  /\ r_pending' = "unmount"
  /\ r_obsDirty' = FALSE
  /\ r_renderDirty' = FALSE
  /\ r_route' = << >>
  /\ r_currentPosition' = NoPosition
  /\ r_networkInfo' = "absent"
  /\ r_canvasSize' = R_InitialSize
  /\ r_visibleSegments' = << >>
  /\ r_queue' = R_NoQueue
  /\ r_frame' = R_NoFrame
  /\ r_painted' = FALSE
  /\ UNCHANGED << surface, r_observer, r_listening >>

\* The passive effects of the last commit: the observer effect (deps [route]:
\* disconnect the previous observer, observe with the new route), the resize
\* effect (deps []) and the render effect.
R_Effects ==
  /\ surface = "route"
  /\ UNCHANGED << wvars, mvars, avars, lvars >>
  /\ r_pending # "none"
  /\ IF r_pending = "unmount"
       THEN /\ r_observer' = None
            /\ r_listening' = FALSE
            /\ r_painted' = FALSE
            /\ UNCHANGED << r_queue, r_frame >>
       ELSE /\ r_observer' = IF r_obsDirty THEN Some(r_route) ELSE r_observer
            /\ r_listening' = TRUE
            /\ r_queue' = IF r_pending = "mount"
                            THEN [r_queue EXCEPT !.size =
                                    R_SizeOf(CHOOSE rw \in R_RectWidths :
                                               \A o \in R_RectWidths : rw <= o)]
                            ELSE r_queue
            /\ IF r_renderDirty
                 THEN /\ r_frame' = R_Paint(r_visibleSegments,
                                            r_currentPosition, r_canvasSize,
                                            r_networkInfo)
                      /\ r_painted' = TRUE
                 ELSE /\ r_painted' = FALSE
                      /\ UNCHANGED r_frame
  /\ r_pending' = "none"
  /\ r_obsDirty' = FALSE
  /\ r_renderDirty' = FALSE
  /\ UNCHANGED << surface, r_mounted, r_route, r_currentPosition,
                  r_networkInfo, r_canvasSize, r_visibleSegments >>

R_Next ==
  \/ R_Mount
  \/ R_ObserverCallback
  \/ R_Resize
  \/ R_Commit
  \/ R_PropsChange
  \/ R_Unmount
  \/ R_Effects

(***************************************************************************)
(* WeatherMap                                                              *)
(***************************************************************************)
M_InitialSize == [width |-> 400, height |-> 300]

M_NoFrame ==
  [painted |-> FALSE, placeholder |-> FALSE, layers |-> << >>,
   gridSize |-> 0, showDetails |-> FALSE, net |-> "absent"]

\* The selection with the detail overlays on at every tier.
M_Quality_AlwaysDetails(net) ==
  IF net = "slow-2g" \/ net = "2g"
    THEN [gridSize |-> 40, showDetails |-> TRUE]
    ELSE IF net = "3g"
      THEN [gridSize |-> 30, showDetails |-> TRUE]
      ELSE [gridSize |-> 20, showDetails |-> TRUE]

\* Grid size and detail selection.
M_Quality(net) ==
  IF net = "slow-2g" \/ net = "2g"
    THEN [gridSize |-> 40, showDetails |-> FALSE]
    ELSE IF net = "3g"
      THEN [gridSize |-> 30, showDetails |-> TRUE]
      ELSE [gridSize |-> 20, showDetails |-> TRUE]

\* The render effect body once it is past the isVisible guard.
M_Paint(hasLocation, data, net) ==
  LET q == M_Quality(net)
  IN [painted |-> TRUE,
      placeholder |-> ~hasLocation,
      gridSize |-> q.gridSize,
      showDetails |-> q.showDetails,
      net |-> net,
      layers |->
        << "background", "grid" >>
        \o (IF ~hasLocation THEN << "placeholder" >>
            ELSE << "marker" >>
                 \o (IF q.showDetails /\ data.present
                       THEN << "zones" >>
                            \o (IF data.windSpeed > 0 THEN << "windArrows" >>
                                ELSE << >>)
                       ELSE << >>)
                 \o << "caption" >>)]


M_Init ==
  /\ m_mounted = FALSE
  /\ m_pending = "none"
  /\ m_location = FALSE
  /\ m_weatherData = NoData
  /\ m_networkInfo = "absent"
  /\ m_isVisible = TRUE
  /\ m_canvasSize = M_InitialSize
  /\ m_queue = NoQueue
  /\ m_observing = FALSE
  /\ m_listening = FALSE
  /\ m_frame = M_NoFrame
  /\ m_painted = FALSE

M_Mount ==
  /\ surface = "map"
  /\ UNCHANGED << wvars, rvars, avars, lvars >>
  /\ ~m_mounted /\ m_pending = "none"
  /\ \E l \in BOOLEAN, d \in WeatherSamples \cup {NoData}, n \in LifeNets :
       /\ m_location' = l
       /\ m_weatherData' = d
       /\ m_networkInfo' = n
  /\ m_mounted' = TRUE
  /\ m_pending' = "mount"
  /\ m_isVisible' = TRUE
  /\ m_canvasSize' = M_InitialSize
  /\ m_queue' = NoQueue
  /\ m_frame' = M_NoFrame
  /\ m_painted' = FALSE
  /\ UNCHANGED << surface, m_observing, m_listening >>

M_ObserverCallback ==
  /\ surface = "map"
  /\ UNCHANGED << wvars, rvars, avars, lvars >>
  /\ m_observing
  /\ \E b \in BOOLEAN :
       m_queue' = IF m_mounted
                    THEN [m_queue EXCEPT !.vis = IF b THEN "true" ELSE "false"]
                    ELSE m_queue
  /\ m_painted' = FALSE
  /\ UNCHANGED << surface, m_mounted, m_pending, m_location, m_weatherData,
                  m_networkInfo, m_isVisible, m_canvasSize, m_observing,
                  m_listening, m_frame >>

M_Resize ==
  /\ surface = "map"
  /\ UNCHANGED << wvars, rvars, avars, lvars >>
  /\ m_listening
  /\ \E rw \in W_RectWidths :
       m_queue' = IF m_mounted
                    THEN [m_queue EXCEPT !.size = W_SizeOf(rw)]
                    ELSE m_queue
  /\ m_painted' = FALSE
  /\ UNCHANGED << surface, m_mounted, m_pending, m_location, m_weatherData,
                  m_networkInfo, m_isVisible, m_canvasSize, m_observing,
                  m_listening, m_frame >>

M_Commit ==
  /\ surface = "map"
  /\ UNCHANGED << wvars, rvars, avars, lvars >>
  /\ m_mounted /\ m_pending = "none"
  /\ m_queue # NoQueue
  /\ LET vis  == IF m_queue.vis = "none" THEN m_isVisible
                 ELSE m_queue.vis = "true"
         size == IF m_queue.size = NoSize THEN m_canvasSize ELSE m_queue.size
         changed == vis # m_isVisible \/ m_queue.size # NoSize
     IN /\ m_isVisible' = vis
        /\ m_canvasSize' = size
        /\ m_pending' = IF changed THEN "update" ELSE "none"
  /\ m_queue' = NoQueue
  /\ m_painted' = FALSE
  /\ UNCHANGED << surface, m_mounted, m_location, m_weatherData,
                  m_networkInfo, m_observing, m_listening, m_frame >>

M_PropsChange ==
  /\ surface = "map"
  /\ UNCHANGED << wvars, rvars, avars, lvars >>
  /\ m_mounted /\ m_pending = "none"
  /\ \E l \in BOOLEAN, d \in WeatherSamples \cup {NoData}, n \in LifeNets :
       /\ << l, d, n >> # << m_location, m_weatherData, m_networkInfo >>
       /\ m_location' = l
       /\ m_weatherData' = d
       /\ m_networkInfo' = n
  /\ m_isVisible' = (IF m_queue.vis = "none" THEN m_isVisible
                     ELSE m_queue.vis = "true")
  /\ m_canvasSize' = (IF m_queue.size = NoSize THEN m_canvasSize
                      ELSE m_queue.size)
  /\ m_pending' = "update"
  /\ m_queue' = NoQueue
  /\ m_painted' = FALSE
  /\ UNCHANGED << surface, m_mounted, m_observing, m_listening, m_frame >>

M_Unmount ==
  /\ surface = "map"
  /\ UNCHANGED << wvars, rvars, avars, lvars >>
  /\ m_mounted /\ m_pending = "none"
  /\ m_mounted' = FALSE
  /\ m_pending' = "unmount"
  /\ m_location' = FALSE
  /\ m_weatherData' = NoData
  /\ m_networkInfo' = "absent"
  /\ m_isVisible' = TRUE
  /\ m_canvasSize' = M_InitialSize
  /\ m_queue' = NoQueue
  /\ m_frame' = M_NoFrame
  /\ m_painted' = FALSE
  /\ UNCHANGED << surface, m_observing, m_listening >>

\* The passive effects of the last commit: observer effect, resize effect
\* and the render effect, which paints once when isVisible.
M_Effects ==
  /\ surface = "map"
  /\ UNCHANGED << wvars, rvars, avars, lvars >>
  /\ m_pending # "none"
  /\ IF m_pending = "unmount"
       THEN /\ m_observing' = FALSE
            /\ m_listening' = FALSE
            /\ m_painted' = FALSE
            /\ UNCHANGED << m_queue, m_frame >>
       ELSE /\ m_observing' = TRUE
            /\ m_listening' = TRUE
            /\ m_queue' = IF m_pending = "mount"
                            THEN [m_queue EXCEPT !.size =
                                    W_SizeOf(CHOOSE rw \in W_RectWidths :
                                               \A o \in W_RectWidths : rw <= o)]
                            ELSE m_queue
            /\ IF m_isVisible
                 THEN /\ m_frame' = M_Paint(m_location, m_weatherData,
                                            m_networkInfo)
                      /\ m_painted' = TRUE
                 ELSE /\ m_painted' = FALSE
                      /\ UNCHANGED m_frame
  /\ m_pending' = "none"
  /\ UNCHANGED << surface, m_mounted, m_location, m_weatherData,
                  m_networkInfo, m_isVisible, m_canvasSize >>

M_Next ==
  \/ M_Mount
  \/ M_ObserverCallback
  \/ M_Resize
  \/ M_Commit
  \/ M_PropsChange
  \/ M_Unmount
  \/ M_Effects

(***************************************************************************)
(* App: location, weather fetches, the weather history and its background  *)
(* trim.  A state setter changes the state variable at once (functional    *)
(* updaters are applied in call order); what a closure sees is the value   *)
(* of the render that created it.  A_Render is one re-render together with *)
(* the effects whose dependencies changed.                                 *)
(***************************************************************************)
\* Bounds of the App model.
MaxSamples == 26
MaxInFlight == 2
MaxGeo == 2
MaxTasks == 2
MaxClock == 1

\* "Keep only last 24 hours of data"
HistoryLimit == 24

\* The locations of the search list the user selects from: New York, which
\* is also the default location, and Tokyo, which only a selection sets.
Locs == {"NY", "TKY"}
DefaultLocation == "NY"
\* Where the device is: the position getCurrentPosition reports.
DeviceLocation == "LDN"
ConnTypes == {"4g", "2g"}

NoSample == [id |-> 0, timestamp |-> 0, loc |-> "none"]


\* fetchWeatherData reading Date.now() before its await.
fetchWeatherData_StampAtStart(loc, started, finished, id) ==
  [id |-> id, timestamp |-> started, loc |-> loc]

\* The sample a fetch started at time started yields at time finished:
\* timestamp is Date.now() after the simulated delay.  id stands for the
\* identity of the returned object.
fetchWeatherData(loc, started, finished, id) ==
  [id |-> id, timestamp |-> finished, loc |-> loc]

\* The updater returning prev untrimmed.
TrimHistory_Nothing(prev) == prev

\* prev.slice(0, 24): the oldest entries instead of the newest.
TrimHistory_Oldest(prev) == SubSeq(prev, 1, Min(Len(prev), HistoryLimit))

\* prev.slice(-24)
TrimHistory(prev) == SliceLast(prev, HistoryLimit)

\* handleLocationSelect appending like the other handlers.
ResetHistory_Append(prev, weather) == Append(prev, weather)

\* setWeatherHistory([weather]) of handleLocationSelect.
ResetHistory(prev, weather) == << weather >>

\* The updater putting the new sample first.
AppendHistory_Prepend(prev, weather) == << weather >> \o prev

\* setWeatherHistory(prev => [...prev, weather]) of the geolocation callbacks
\* and of the auto-update interval.
AppendHistory(prev, weather) == Append(prev, weather)

\* WeatherStats.calculateTrend for a numeric field of the samples (here the
\* timestamp): the current value minus that of the last but one entry.
calculateTrend(current, history) ==
  IF Len(history) < 2 THEN 0
  ELSE current - history[Len(history) - 1].timestamp

HasCapacity == Len(a_fetches) < MaxInFlight

\* A call of fetchWeatherData that has reached its await.
StartFetch(kind, loc) ==
  Append(a_fetches, [kind |-> kind, loc |-> loc, started |-> a_now])

\* The sequence q without its i-th element.
RemoveAt(q, i) == SubSeq(q, 1, i - 1) \o SubSeq(q, i + 1, Len(q))

A_Init ==
  /\ a_started = FALSE
  /\ a_hasConnection \in BOOLEAN
  /\ a_connType = "4g"
  /\ a_currentWeather = NoSample
  /\ a_weatherHistory = << >>
  /\ a_location = "none"
  /\ a_networkInfo = "null"
  /\ a_isLoading = FALSE
  /\ a_lastUpdate = -1
  /\ a_dirtyNet = FALSE
  /\ a_dirtyLoc = FALSE
  /\ a_dirtyHist = FALSE
  /\ a_geo = 0
  /\ a_fetches = << >>
  /\ a_timer = None
  /\ a_tasks = << >>
  /\ a_trends = FALSE
  /\ a_now = 0
  /\ a_nextId = 1

\* A render and the effects it runs:
\*   network effect (mount only): setNetworkInfo(connection);
\*   auto-update effect [location, fetchWeatherData];
\*   process-history effect [weatherHistory, processWeatherHistory];
\*   initial-load effect [getCurrentLocation].
\* fetchWeatherData, and with it getCurrentLocation, is a new function
\* whenever networkInfo was set.
A_Render ==
  /\ UNCHANGED << surface, wvars, rvars, mvars, lvars >>
  /\ ~a_started \/ a_dirtyNet \/ a_dirtyLoc \/ a_dirtyHist
  /\ LET mount    == ~a_started
         runAuto  == mount \/ a_dirtyLoc \/ a_dirtyNet
         runHist  == mount \/ a_dirtyHist
         runLoad  == mount \/ a_dirtyNet
         schedule == runHist /\ Len(a_weatherHistory) > 0
     IN /\ schedule => Len(a_tasks) < MaxTasks
        /\ runLoad => a_geo < MaxGeo
        /\ a_networkInfo' = IF mount /\ a_hasConnection THEN "live"
                            ELSE a_networkInfo
        /\ a_dirtyNet' = (mount /\ a_hasConnection)
        /\ a_timer' = IF runAuto
                        THEN IF a_location # "none" THEN Some(a_location)
                             ELSE None
                        ELSE a_timer
        /\ a_tasks' = IF schedule
                        THEN Append(a_tasks, Len(a_weatherHistory))
                        ELSE a_tasks
        /\ a_isLoading' = IF runLoad THEN TRUE ELSE a_isLoading
        /\ a_geo' = IF runLoad THEN a_geo + 1 ELSE a_geo
  /\ a_started' = TRUE
  /\ a_dirtyLoc' = FALSE
  /\ a_dirtyHist' = FALSE
  /\ UNCHANGED << a_hasConnection, a_connType, a_currentWeather,
                  a_weatherHistory, a_location, a_lastUpdate, a_fetches,
                  a_trends, a_now, a_nextId >>

\* networkInfo?.effectiveType as fetchWeatherData and the three surfaces
\* read it: the connection object reports its present type, a spread copy
\* reports the type it copied, if it copied one.
effectiveType(networkInfo, connType) ==
  CASE networkInfo = "live" -> connType
    [] networkInfo \in ConnTypes -> networkInfo
    [] OTHER -> "undefined"

\* The connection's change event: setNetworkInfo({ ...connection }).  The
\* spread copies own enumerable properties only: a NetworkInformation object
\* exposes effectiveType through an accessor of its prototype and the copy
\* has none; a connection object that holds it as a data property passes it
\* on.
A_NetworkChange ==
  /\ UNCHANGED << surface, wvars, rvars, mvars, lvars >>
  /\ a_started /\ a_hasConnection
  /\ \E t \in ConnTypes \ {a_connType} :
       /\ a_connType' = t
       /\ a_networkInfo' \in {"copy", t}
  /\ a_dirtyNet' = TRUE
  /\ UNCHANGED << a_started, a_hasConnection, a_currentWeather,
                  a_weatherHistory, a_location, a_isLoading, a_lastUpdate,
                  a_dirtyLoc, a_dirtyHist, a_geo, a_fetches, a_timer, a_tasks,
                  a_trends, a_now, a_nextId >>

\* The Use GPS button (rendered while isLoading is false): getCurrentLocation.
A_UseGps ==
  /\ UNCHANGED << surface, wvars, rvars, mvars, lvars >>
  /\ a_started /\ ~a_isLoading
  /\ a_geo < MaxGeo
  /\ a_isLoading' = TRUE
  /\ a_geo' = a_geo + 1
  /\ UNCHANGED << a_started, a_hasConnection, a_connType,
                  a_currentWeather, a_weatherHistory, a_location,
                  a_networkInfo, a_lastUpdate, a_dirtyNet, a_dirtyLoc,
                  a_dirtyHist, a_fetches, a_timer, a_tasks, a_trends, a_now,
                  a_nextId >>

\* handleLocationSelect up to its await (LocationSearch is rendered while
\* isLoading is false).
A_Select ==
  /\ UNCHANGED << surface, wvars, rvars, mvars, lvars >>
  /\ a_started /\ ~a_isLoading
  /\ HasCapacity
  /\ \E loc \in Locs :
       /\ a_location' = loc
       /\ a_fetches' = StartFetch("select", loc)
  /\ a_dirtyLoc' = TRUE
  /\ a_isLoading' = TRUE
  /\ UNCHANGED << a_started, a_hasConnection, a_connType,
                  a_currentWeather, a_weatherHistory, a_networkInfo,
                  a_lastUpdate, a_dirtyNet, a_dirtyHist, a_geo, a_timer,
                  a_tasks, a_trends, a_now, a_nextId >>

\* The geolocation success callback up to its await.
A_GeoSuccess ==
  /\ UNCHANGED << surface, wvars, rvars, mvars, lvars >>
  /\ a_geo > 0
  /\ HasCapacity
  /\ a_location' = DeviceLocation
  /\ a_fetches' = StartFetch("gps", DeviceLocation)
  /\ a_dirtyLoc' = TRUE
  /\ a_geo' = a_geo - 1
  /\ UNCHANGED << a_started, a_hasConnection, a_connType,
                  a_currentWeather, a_weatherHistory, a_networkInfo,
                  a_isLoading, a_lastUpdate, a_dirtyNet, a_dirtyHist, a_timer,
                  a_tasks, a_trends, a_now, a_nextId >>

\* The geolocation error callback up to the fetch for the default location.
A_GeoError ==
  /\ UNCHANGED << surface, wvars, rvars, mvars, lvars >>
  /\ a_geo > 0
  /\ HasCapacity
  /\ a_isLoading' = FALSE
  /\ a_location' = DefaultLocation
  /\ a_fetches' = StartFetch("gpsError", DefaultLocation)
  /\ a_dirtyLoc' = TRUE
  /\ a_geo' = a_geo - 1
  /\ UNCHANGED << a_started, a_hasConnection, a_connType,
                  a_currentWeather, a_weatherHistory, a_networkInfo,
                  a_lastUpdate, a_dirtyNet, a_dirtyHist, a_timer, a_tasks,
                  a_trends, a_now, a_nextId >>

\* The auto-update interval fires: the callback up to its await.
A_TimerFire ==
  /\ UNCHANGED << surface, wvars, rvars, mvars, lvars >>
  /\ a_timer # None
  /\ HasCapacity
  /\ a_fetches' = StartFetch("auto", a_timer[1])
  /\ UNCHANGED << a_started, a_hasConnection, a_connType,
                  a_currentWeather, a_weatherHistory, a_location,
                  a_networkInfo, a_isLoading, a_lastUpdate, a_dirtyNet,
                  a_dirtyLoc, a_dirtyHist, a_geo, a_timer, a_tasks, a_trends,
                  a_now, a_nextId >>

\* A fetch completes and the code after its await runs:
\*   select:          setWeatherHistory([weather]), setIsLoading(false);
\*   gps:             setWeatherHistory(prev => [...prev, weather]),
\*                    setIsLoading(false);
\*   gpsError, auto:  setWeatherHistory(prev => [...prev, weather]).
A_FetchDone ==
  /\ UNCHANGED << surface, wvars, rvars, mvars, lvars >>
  /\ a_nextId <= MaxSamples
  /\ \E i \in 1..Len(a_fetches) :
       LET f == a_fetches[i]
           weather == fetchWeatherData(f.loc, f.started, a_now, a_nextId)
       IN /\ a_fetches' = RemoveAt(a_fetches, i)
          /\ a_currentWeather' = weather
          /\ a_weatherHistory' =
               IF f.kind = "select"
                 THEN ResetHistory(a_weatherHistory, weather)
                 ELSE AppendHistory(a_weatherHistory, weather)
          /\ a_isLoading' = IF f.kind \in {"select", "gps"} THEN FALSE
                            ELSE a_isLoading
  /\ a_lastUpdate' = a_now
  /\ a_dirtyHist' = TRUE
  /\ a_nextId' = a_nextId + 1
  /\ UNCHANGED << a_started, a_hasConnection, a_connType,
                  a_location, a_networkInfo, a_dirtyNet, a_dirtyLoc, a_geo,
                  a_timer, a_tasks, a_trends, a_now >>

\* The oldest scheduled background task runs; len is the length of the
\* weatherHistory its closure holds.
A_IdleTask ==
  /\ UNCHANGED << surface, wvars, rvars, mvars, lvars >>
  /\ a_tasks # << >>
  /\ LET len == Head(a_tasks)
     IN /\ a_weatherHistory' = IF len > HistoryLimit
                                 THEN TrimHistory(a_weatherHistory)
                                 ELSE a_weatherHistory
        /\ a_dirtyHist' = (a_dirtyHist \/ len > HistoryLimit)
        /\ a_trends' = (a_trends \/ len > 1)
  /\ a_tasks' = Tail(a_tasks)
  /\ UNCHANGED << a_started, a_hasConnection, a_connType,
                  a_currentWeather, a_location, a_networkInfo, a_isLoading,
                  a_lastUpdate, a_dirtyNet, a_dirtyLoc, a_geo, a_fetches,
                  a_timer, a_now, a_nextId >>

\* Time passes.
A_Tick ==
  /\ UNCHANGED << surface, wvars, rvars, mvars, lvars >>
  /\ a_now < MaxClock
  /\ a_now' = a_now + 1
  /\ UNCHANGED << a_started, a_hasConnection, a_connType,
                  a_currentWeather, a_weatherHistory, a_location,
                  a_networkInfo, a_isLoading, a_lastUpdate, a_dirtyNet,
                  a_dirtyLoc, a_dirtyHist, a_geo, a_fetches, a_timer, a_tasks,
                  a_trends, a_nextId >>

A_Next ==
  \/ A_Render
  \/ A_NetworkChange
  \/ A_UseGps
  \/ A_Select
  \/ A_GeoSuccess
  \/ A_GeoError
  \/ A_TimerFire
  \/ A_FetchDone
  \/ A_IdleTask
  \/ A_Tick

(***************************************************************************)
(* LocationSearch: the recent-locations list and its persisted copy.       *)
(* Coordinates are ten-thousandths of a degree.                            *)
(***************************************************************************)
MaxCities == 7
RecentLimit == 5

City(lat, lng, city, country) ==
  [lat |-> lat, lng |-> lng, city |-> city, country |-> country]

sampleCities ==
  << City(407128, -740060, "New York", "USA"),
     City(515074, -1278, "London", "UK"),
     City(356762, 1396503, "Tokyo", "Japan"),
     City(488566, 23522, "Paris", "France"),
     City(-338688, 1512093, "Sydney", "Australia"),
     City(190760, 728777, "Mumbai", "India"),
     City(-235505, -466333, "Sao Paulo", "Brazil"),
     City(557558, 376176, "Moscow", "Russia"),
     City(399042, 1164074, "Beijing", "China"),
     City(525200, 134050, "Berlin", "Germany"),
     City(377749, -1224194, "San Francisco", "USA"),
     City(252048, 552708, "Dubai", "UAE"),
     City(13521, 1038198, "Singapore", "Singapore"),
     City(599311, 107490, "Oslo", "Norway"),
     City(-262041, 280473, "Johannesburg", "South Africa"),
     City(454215, -756972, "Ottawa", "Canada"),
     City(-346037, -583816, "Buenos Aires", "Argentina"),
     City(419028, 124964, "Rome", "Italy"),
     City(404168, -37038, "Madrid", "Spain"),
     City(500755, 144378, "Prague", "Czech Republic") >>

\* The cities a behaviour selects: the first MaxCities of sampleCities.
Selectable == { sampleCities[i] : i \in 1..Min(MaxCities, Len(sampleCities)) }

\* JSON.stringify of a list of locations: per location the values of its
\* own properties in insertion order (lat, lng, city, country).
JSONstringify(list) ==
  [i \in 1..Len(list) |->
     << list[i].lat, list[i].lng, list[i].city, list[i].country >>]

\* JSON.parse of such a text: new location objects.
JSONparse(text) ==
  [i \in 1..Len(text) |-> City(text[i][1], text[i][2], text[i][3], text[i][4])]

\* The first k elements of q: q.slice(0, k).
SliceFirst(q, k) == SubSeq(q, 1, Min(k, Len(q)))

SamePlace(a, b) == a.lat = b.lat /\ a.lng = b.lng

updatedRecent_NoFilter(recentLocations, location) ==
  SliceFirst(<< location >> \o recentLocations, RecentLimit)

\* updatedRecent of handleLocationSelect.
updatedRecent(recentLocations, location) ==
  LET Other(loc) == ~SamePlace(loc, location)
  IN SliceFirst(<< location >> \o SelectSeq(recentLocations, Other),
                RecentLimit)

\* LocationSearch while another component's specification runs.
L_Idle ==
  /\ l_mounted = FALSE
  /\ l_recentLocations = << >>
  /\ l_persisted = None

\* The parent renders LocationSearch (App does while isLoading is false):
\* the mount render with recentLocations = [] and the load effect.
L_Mount ==
  /\ surface = "search"
  /\ ~l_mounted
  /\ l_mounted' = TRUE
  /\ l_recentLocations' = IF l_persisted # None
                            THEN JSONparse(l_persisted[1])
                            ELSE << >>
  /\ UNCHANGED << surface, wvars, rvars, mvars, avars, l_persisted >>

\* The parent stops rendering LocationSearch (App does while isLoading is
\* true, which its onLocationSelect sets): the component state is dropped.
L_Unmount ==
  /\ surface = "search"
  /\ l_mounted
  /\ l_mounted' = FALSE
  /\ l_recentLocations' = << >>
  /\ UNCHANGED << surface, wvars, rvars, mvars, avars, l_persisted >>

\* handleLocationSelect of LocationSearch for a search result, a recent
\* location or a popular city; the onLocationSelect prop changes no state
\* of LocationSearch.
L_Select ==
  /\ surface = "search"
  /\ l_mounted
  /\ \E location \in Selectable :
       LET updated == updatedRecent(l_recentLocations, location)
       IN /\ l_recentLocations' = updated
          /\ l_persisted' = Some(JSONstringify(updated))
  /\ UNCHANGED << surface, wvars, rvars, mvars, avars, l_mounted >>

\* clearRecentLocations (the Clear button shows while the list is not
\* empty).
L_Clear ==
  /\ surface = "search"
  /\ l_mounted
  /\ Len(l_recentLocations) > 0
  /\ l_recentLocations' = << >>
  /\ l_persisted' = None
  /\ UNCHANGED << surface, wvars, rvars, mvars, avars, l_mounted >>

(***************************************************************************)
(* Specification of the surfaces: one surface component per behaviour (the *)
(* surfaces share no state, each only reads the props its parent passes).  *)
(***************************************************************************)
vars == << surface, wvars, rvars, mvars, avars, lvars >>

\* The App variables while a surface specification runs.
A_Idle ==
  /\ A_Init
  /\ a_hasConnection = FALSE

Init ==
  /\ surface \in {"weather", "route", "map"}
  /\ W_Init
  /\ R_Init
  /\ M_Init
  /\ A_Idle
  /\ L_Idle

Next ==
  \/ W_Next
  \/ R_Next
  \/ M_Next

Spec == Init /\ [][Next]_vars

(***************************************************************************)
(* Specification of the paints: every surface starts mounted, with props   *)
(* and state drawn from bounded sets and its render effect about to run    *)
(* (the state after the first placeholder paint and a re-render), and then *)
(* paints.                                                                 *)
(***************************************************************************)
MaxWindow == 3

PaintRectWidths == {400, 1000}

PaintPositions ==
  { [present |-> TRUE, lat |-> la, lng |-> ln, speed |-> sp] :
      la \in {0, 1000}, ln \in {0, 1000}, sp \in {None, Some(FiveMps)} }

PaintCurrents ==
  { [present |-> TRUE, lat |-> la, lng |-> ln, speed |-> None] :
      la \in {0, 1000}, ln \in {0, 1000} } \cup { NoPosition }

\* The speeds of the dot windows.
DotSpeeds ==
  { None, Some(Zero), Some(MpsBelow15), Some(MpsNearest15), Some(MpsBelow25),
    Some(MpsNearest25), Some(MpsAbove25), Some(FourMps), Some(SevenMps),
    Some(TenMps) }

\* Windows of two samples whose speeds range over DotSpeeds.
DotWindows ==
  { << [present |-> TRUE, lat |-> 0, lng |-> 0, speed |-> s1],
       [present |-> TRUE, lat |-> 1000, lng |-> 1000, speed |-> s2] >> :
      s1 \in DotSpeeds, s2 \in DotSpeeds }

W_PaintInit ==
  /\ w_mounted = TRUE
  /\ w_pending = "update"
  /\ \E dp \in W_PaintDataProps : w_weatherData = dp[1] /\ w_histLen = dp[2]
  /\ w_networkInfo \in NetValues
  /\ w_isVisible = TRUE
  /\ w_canvasSize \in { W_SizeOf(rw) : rw \in PaintRectWidths }
                       \cup { W_InitialSize }
  /\ w_queue = NoQueue
  /\ w_observing = TRUE
  /\ w_listening = TRUE
  /\ w_hasCleanup = TRUE
  /\ w_animationRef = 0
  /\ w_rafs = {}
  /\ w_frame = W_Animate(W_Closure(TRUE, NoData, 0, "absent", W_InitialSize),
                         0, {}, 0, W_NoFrame).frame
  /\ w_painted = FALSE
  /\ w_hiddenSince = FALSE

R_PaintInit ==
  /\ r_mounted = TRUE
  /\ r_pending = "update"
  /\ r_obsDirty = FALSE
  /\ r_renderDirty = TRUE
  /\ r_visibleSegments \in SeqsUpTo(PaintPositions, MaxWindow) \cup DotWindows
  /\ r_route = r_visibleSegments
  /\ r_currentPosition \in PaintCurrents
  /\ r_networkInfo \in NetValues
  /\ r_canvasSize \in { R_SizeOf(rw) : rw \in PaintRectWidths }
                       \cup { R_InitialSize }
  /\ r_queue = R_NoQueue
  /\ r_observer = Some(r_route)
  /\ r_listening = TRUE
  /\ r_frame = R_Paint(<< >>, r_currentPosition, R_InitialSize, r_networkInfo)
  /\ r_painted = FALSE

M_PaintInit ==
  /\ m_mounted = TRUE
  /\ m_pending = "update"
  /\ m_location \in BOOLEAN
  /\ m_weatherData \in WeatherSamples \cup {NoData}
  /\ m_networkInfo \in NetValues
  /\ m_isVisible = TRUE
  /\ m_canvasSize \in { W_SizeOf(rw) : rw \in PaintRectWidths }
                       \cup { M_InitialSize }
  /\ m_queue = NoQueue
  /\ m_observing = TRUE
  /\ m_listening = TRUE
  /\ m_frame = M_Paint(FALSE, NoData, "absent")
  /\ m_painted = FALSE

PaintInit ==
  /\ surface \in {"weather", "route", "map"}
  /\ IF surface = "weather" THEN W_PaintInit ELSE W_Init
  /\ IF surface = "route" THEN R_PaintInit ELSE R_Init
  /\ IF surface = "map" THEN M_PaintInit ELSE M_Init
  /\ A_Idle
  /\ L_Idle

PaintNext ==
  \/ W_Effects
  \/ W_Frame
  \/ R_Effects
  \/ M_Effects

SpecPaint == PaintInit /\ [][PaintNext]_vars

(***************************************************************************)
(* Specification of the rendering window of RouteCanvas: the component has *)
(* just been mounted with a route shorter than, as long as, or longer than *)
(* the window limit; its points are told apart by their latitude.          *)
(***************************************************************************)
WindowRouteLens == {2, 49, 50, 51, 53}

Ramp(n) ==
  [i \in 1..n |-> [present |-> TRUE, lat |-> i, lng |-> 0,
                 speed |-> Some(FiveMps)]]

WindowInit ==
  /\ surface = "route"
  /\ W_Init /\ M_Init /\ A_Idle /\ L_Idle
  /\ r_mounted = TRUE
  /\ r_pending = "mount"
  /\ r_obsDirty = TRUE
  /\ r_renderDirty = TRUE
  /\ r_route \in { Ramp(n) : n \in WindowRouteLens }
  /\ r_currentPosition = NoPosition
  /\ r_networkInfo \in LifeNets
  /\ r_canvasSize = R_InitialSize
  /\ r_visibleSegments = << >>
  /\ r_queue = R_NoQueue
  /\ r_observer = None
  /\ r_listening = FALSE
  /\ r_frame = R_NoFrame
  /\ r_painted = FALSE

WindowNext ==
  \/ R_ObserverCallback
  \/ R_Resize
  \/ R_Commit
  \/ R_PropsChange
  \/ R_Effects

SpecWindow == WindowInit /\ [][WindowNext]_vars

(***************************************************************************)
(* Specification of App.                                                   *)
(***************************************************************************)
AppInit ==
  /\ surface = "app"
  /\ W_Init
  /\ R_Init
  /\ M_Init
  /\ A_Init
  /\ L_Idle

\* Start-up, the user's actions, the refresh cycle and the clock, for
\* behaviours of at most MaxAppSamples samples.
MaxAppSamples == 2

AppNext ==
  \/ (a_nextId <= MaxAppSamples /\ A_Render)
  \/ (a_nextId <= MaxAppSamples /\ A_UseGps)
  \/ (a_nextId <= MaxAppSamples /\ A_Select)
  \/ (a_nextId <= MaxAppSamples /\ A_GeoSuccess)
  \/ (a_nextId <= MaxAppSamples /\ A_GeoError)
  \/ (a_nextId <= MaxAppSamples /\ A_TimerFire)
  \/ (a_nextId <= MaxAppSamples /\ A_FetchDone)
  \/ (a_nextId <= MaxAppSamples /\ A_IdleTask)
  \/ (a_nextId <= MaxAppSamples /\ A_Tick)

SpecApp == AppInit /\ [][AppNext]_vars

\* The refresh cycle alone (no user action, no network change, the clock
\* within one millisecond), for behaviours of up to MaxSamples samples: the
\* history outgrows its limit.  It starts where App is once the browser has
\* no Network Information API, the device position was reported, the first
\* sample has arrived and the background task of that render has run.
RefreshInit ==
  /\ surface = "app"
  /\ W_Init
  /\ R_Init
  /\ M_Init
  /\ L_Idle
  /\ a_started = TRUE
  /\ a_hasConnection = FALSE
  /\ a_connType = "4g"
  /\ a_currentWeather = fetchWeatherData(DeviceLocation, 0, 0, 1)
  /\ a_weatherHistory = << fetchWeatherData(DeviceLocation, 0, 0, 1) >>
  /\ a_location = DeviceLocation
  /\ a_networkInfo = "null"
  /\ a_isLoading = FALSE
  /\ a_lastUpdate = 0
  /\ a_dirtyNet = FALSE
  /\ a_dirtyLoc = FALSE
  /\ a_dirtyHist = FALSE
  /\ a_geo = 0
  /\ a_fetches = << >>
  /\ a_timer = Some(DeviceLocation)
  /\ a_tasks = << >>
  /\ a_trends = FALSE
  /\ a_now = 0
  /\ a_nextId = 2

RefreshNext ==
  \/ A_Render
  \/ A_TimerFire
  \/ A_FetchDone
  \/ A_IdleTask

SpecRefresh == RefreshInit /\ [][RefreshNext]_vars

\* The refresh cycle while App stays mounted: React runs a pending render
\* and its effects, and the browser runs a scheduled idle callback
\* (requestIdleCallback is called with a timeout of 2000 ms).
SpecRefreshFair ==
  SpecRefresh /\ WF_vars(A_Render) /\ WF_vars(A_IdleTask)

\* Start-up and the connection's change events, with the geolocation and
\* fetch completions they lead to, for behaviours of at most MaxAppSamples
\* samples.
NetworkNext ==
  \/ (a_nextId <= MaxAppSamples /\ A_Render)
  \/ (a_nextId <= MaxAppSamples /\ A_NetworkChange)
  \/ (a_nextId <= MaxAppSamples /\ A_GeoSuccess)
  \/ (a_nextId <= MaxAppSamples /\ A_GeoError)
  \/ (a_nextId <= MaxAppSamples /\ A_FetchDone)
  \/ (a_nextId <= MaxAppSamples /\ A_IdleTask)

SpecNetwork == AppInit /\ [][NetworkNext]_vars

\* LocationSearch alone, from an empty list and no persisted copy; its
\* parent mounts and unmounts it at any time.
RecentInit ==
  /\ surface = "search"
  /\ W_Init
  /\ R_Init
  /\ M_Init
  /\ A_Idle
  /\ L_Idle

RecentNext ==
  \/ L_Mount
  \/ L_Unmount
  \/ L_Select
  \/ L_Clear

SpecRecent == RecentInit /\ [][RecentNext]_vars

(***************************************************************************)
(* Properties of the surfaces' life cycle, checked under Spec.             *)
(***************************************************************************)
\* The weather surface is mounted and its committed isVisible is false.
W_Hidden == w_mounted /\ ~w_isVisible

\* A surface is torn down: it was removed and its effect cleanups have run.
W_TornDown == ~w_mounted /\ w_pending = "none"
R_TornDown == ~r_mounted /\ r_pending = "none"
M_TornDown == ~m_mounted /\ m_pending = "none"

\* C1: once the weather surface's visibility state has become false, no
\* paint callback runs until it is true again, and once the effects of the
\* re-render that applied it have run no frame request is outstanding.
C1_NoPaintWhileHidden ==
  [][/\ W_Hidden => ~w_painted'
     /\ (W_Hidden' /\ w_pending' = "none") => w_rafs' = {}]_vars

\* C2: after a surface is torn down its pending frame request is cancelled,
\* its observer is disconnected, its resize listener is removed, and none of
\* its callbacks can run.
C2_TornDownIsQuiet ==
  /\ W_TornDown => /\ w_rafs = {}
                   /\ ~w_observing
                   /\ ~w_listening
                   /\ ~ENABLED W_Frame
                   /\ ~ENABLED W_ObserverCallback
                   /\ ~ENABLED W_Resize
  /\ R_TornDown => /\ r_observer = None
                   /\ ~r_listening
                   /\ ~ENABLED R_ObserverCallback
                   /\ ~ENABLED R_Resize
  /\ M_TornDown => /\ ~m_observing
                   /\ ~m_listening
                   /\ ~ENABLED M_ObserverCallback
                   /\ ~ENABLED M_Resize

\* A weather surface that had requested frames has been torn down.
C2_Witness == surface = "weather" /\ W_TornDown /\ w_animationRef # 0

\* C3: the first frame painted after the weather surface was hidden uses the
\* last painted elapsed time plus 0.02; the accumulator is never reset.
C3_ClockResumes ==
  [][(/\ w_mounted /\ w_hiddenSince
      /\ w_frame.painted /\ ~w_frame.placeholder
      /\ w_painted' /\ ~w_frame'.placeholder)
       => w_frame'.t = w_frame.t + AnimStep]_vars

\* C4: the weather surface has at most one outstanding frame request, and
\* one is outstanding only while its visibility state is true (the route and
\* map surfaces request no frames).
C4_OneRequestOnlyWhileVisible ==
  /\ Cardinality(w_rafs) <= 1
  /\ (w_mounted /\ w_rafs # {}) => w_isVisible

(***************************************************************************)
(* Properties of the weather history, checked under SpecRefresh (C5, C6)   *)
(* and SpecApp (C7, C8).                                                   *)
(***************************************************************************)
\* C5: in every reachable state the weather history holds at most 24
\* samples.
C5_HistoryAtMostLimit == Len(a_weatherHistory) <= HistoryLimit

\* C6: when a background task trims a history of n > 24 samples, the result
\* is exactly the 24 newest samples, in their original order and unmodified.
C6_TrimKeepsNewest ==
  [][(/\ a_tasks # << >>
      /\ a_tasks' = Tail(a_tasks)
      /\ Head(a_tasks) > HistoryLimit
      /\ Len(a_weatherHistory) > HistoryLimit)
       => /\ Len(a_weatherHistory') = HistoryLimit
          /\ \A i \in 1..HistoryLimit :
               a_weatherHistory'[i] =
                 a_weatherHistory[Len(a_weatherHistory) - HistoryLimit + i]]_vars

\* A history of 26 samples has been trimmed: the two oldest are gone.
C6_Witness ==
  /\ Len(a_weatherHistory) = HistoryLimit
  /\ a_weatherHistory[1].id = 3

\* C7: when the fetch of a location selection completes the history becomes
\* exactly the new sample; when the fetch of an auto-update or of a GPS poll
\* completes, the new sample is appended and the earlier samples stay in
\* place.
C7_CompletionUpdatesHistory ==
  [][(a_nextId' = a_nextId + 1) =>
       \E i \in 1..Len(a_fetches) :
         /\ a_fetches' = RemoveAt(a_fetches, i)
         /\ a_currentWeather'.id = a_nextId
         /\ IF a_fetches[i].kind = "select"
              THEN a_weatherHistory' = << a_currentWeather' >>
              ELSE /\ Len(a_weatherHistory') = Len(a_weatherHistory) + 1
                   /\ \A j \in 1..Len(a_weatherHistory) :
                        a_weatherHistory'[j] = a_weatherHistory[j]
                   /\ a_weatherHistory'[Len(a_weatherHistory')] =
                        a_currentWeather']_vars

\* A selection's sample has replaced a history that held an earlier sample.
C7_Witness ==
  /\ Len(a_weatherHistory) = 1
  /\ a_weatherHistory[1].id = 2

\* C8: the weather history is in non-decreasing timestamp order, for every
\* interleaving of concurrent fetches.
C8_HistoryChronological ==
  \A i \in 1..(Len(a_weatherHistory) - 1) :
    a_weatherHistory[i].timestamp <= a_weatherHistory[i + 1].timestamp

\* A sample has arrived while an appending fetch that started before the
\* sample's timestamp is still in flight.
C8_Witness ==
  /\ a_weatherHistory # << >>
  /\ \E i \in 1..Len(a_fetches) :
       /\ a_fetches[i].kind # "select"
       /\ a_fetches[i].started <
            a_weatherHistory[Len(a_weatherHistory)].timestamp

(***************************************************************************)
(* Properties of the paints, checked under SpecPaint.                      *)
(***************************************************************************)
\* The quality table as the specification states it (lineWidth in tenths).
C9_Row(net) ==
  IF net \in {"slow-2g", "2g"}
    THEN [lineWidth |-> 20, detailStride |-> 3, particleCount |-> 20,
          gridSize |-> 40, overlays |-> FALSE]
    ELSE IF net = "3g"
      THEN [lineWidth |-> 25, detailStride |-> 2, particleCount |-> 35,
            gridSize |-> 30, overlays |-> TRUE]
      ELSE [lineWidth |-> 30, detailStride |-> 1, particleCount |-> 50,
            gridSize |-> 20, overlays |-> TRUE]

InsidePadding(c, size) ==
  /\ padding * c.xd <= c.xn
  /\ c.xn <= (size.width - padding) * c.xd
  /\ padding * c.yd <= c.yn
  /\ c.yn <= (size.height - padding) * c.yd

\* The window holds at least two distinct points.
TwoDistinctPoints(segs) ==
  \E i, j \in 1..Len(segs) :
    segs[i].lat # segs[j].lat \/ segs[i].lng # segs[j].lng

\* C10: for a window of at least 2 distinct points and every surface size,
\* every projected point of the window (polyline vertices, start marker,
\* speed dots) lies inside the surface inset by the 40px padding.
C10_WindowInsidePadding ==
  (r_frame.painted /\ ~r_frame.placeholder
     /\ TwoDistinctPoints(r_visibleSegments))
    => /\ \A k \in 1..Len(r_frame.polyline) :
            InsidePadding(r_frame.polyline[k], r_frame.size)
       /\ \A k \in 1..Len(r_frame.start) :
            InsidePadding(r_frame.start[k], r_frame.size)
       /\ \A k \in 1..Len(r_frame.dots) :
            InsidePadding(r_frame.dots[k].at, r_frame.size)

\* A painted polyline of every window point with a vertex on the far edge
\* of the inset area.
C10_Witness ==
  /\ surface = "route"
  /\ r_frame.painted /\ ~r_frame.placeholder
  /\ TwoDistinctPoints(r_visibleSegments)
  /\ Len(r_frame.polyline) = Len(r_visibleSegments)
  /\ \E k \in 1..Len(r_frame.polyline) :
       /\ r_frame.polyline[k].xn =
            (r_frame.size.width - padding) * r_frame.polyline[k].xd
       /\ r_frame.polyline[k].yn =
            (r_frame.size.height - padding) * r_frame.polyline[k].yd

\* Every projected point of the window that a route frame holds: the
\* polyline vertices, the start marker, the speed dots, and the current
\* position marker when the current position is a point of the window.
R_WindowCoords ==
  { r_frame.polyline[k] : k \in 1..Len(r_frame.polyline) }
    \cup { r_frame.start[k] : k \in 1..Len(r_frame.start) }
    \cup { r_frame.dots[k].at : k \in 1..Len(r_frame.dots) }
    \cup (IF \E i \in 1..Len(r_visibleSegments) :
               /\ r_visibleSegments[i].lat = r_currentPosition.lat
               /\ r_visibleSegments[i].lng = r_currentPosition.lng
            THEN { r_frame.current[k] : k \in 1..Len(r_frame.current) }
            ELSE {})

\* The window is not empty and all its points share the longitude (latitude).
ZeroLngSpread(segs) ==
  Len(segs) > 0 /\ \A i \in 1..Len(segs) : segs[i].lng = segs[1].lng
ZeroLatSpread(segs) ==
  Len(segs) > 0 /\ \A i \in 1..Len(segs) : segs[i].lat = segs[1].lat

\* C11: for a window with a single point or with zero spread on an axis the
\* projection uses a span of 0.001 degrees on that axis (no division by
\* zero) and places the point at the centre of the drawing area on that axis.
C11_DegenerateAxisCentred ==
  (r_frame.painted /\ ~r_frame.placeholder) =>
    \A c \in R_WindowCoords :
      /\ c.xd # 0 /\ c.yd # 0
      /\ ZeroLngSpread(r_visibleSegments)
           => (c.xd = MinSpan /\ 2 * c.xn = r_frame.size.width * c.xd)
      /\ ZeroLatSpread(r_visibleSegments)
           => (c.yd = MinSpan /\ 2 * c.yn = r_frame.size.height * c.yd)

\* The window (0,0), (0,1), (1,1) in degrees.
IsScenarioWindow(segs) ==
  /\ Len(segs) = 3
  /\ segs[1].lat = 0 /\ segs[1].lng = 0
  /\ segs[2].lat = 0 /\ segs[2].lng = 1000
  /\ segs[3].lat = 1000 /\ segs[3].lng = 1000

\* C12: the window (0,0), (0,1), (1,1) on a 400x300 surface maps its first
\* point to (40, 260) and its last to (360, 40); in general x does not
\* decrease when the longitude increases, y does not increase when the
\* latitude increases, and the maximum latitude is at the top of the inset.
C12_ProjectionOrientation ==
  (r_frame.painted /\ ~r_frame.placeholder /\ r_frame.segmentDetail = 1
     /\ Len(r_frame.polyline) > 0) =>
    LET segs == r_visibleSegments
        line == r_frame.polyline
    IN /\ (IsScenarioWindow(segs) /\ r_frame.size.width = 400
             /\ r_frame.size.height = 300)
            => /\ line[1].xn = 40 * line[1].xd
               /\ line[1].yn = 260 * line[1].yd
               /\ line[3].xn = 360 * line[3].xd
               /\ line[3].yn = 40 * line[3].yd
       /\ \A i, j \in 1..Len(line) :
            /\ line[i].xd = line[j].xd /\ line[i].yd = line[j].yd
            /\ segs[i].lng <= segs[j].lng => line[i].xn <= line[j].xn
            /\ segs[i].lat <= segs[j].lat => line[i].yn >= line[j].yn
       /\ \A i \in 1..Len(line) :
            (\A j \in 1..Len(segs) : segs[j].lat <= segs[i].lat)
              => line[i].yn = padding * line[i].yd

\* The scenario window has been painted on a 400x300 surface.
C12_Witness ==
  /\ surface = "route"
  /\ r_frame.painted /\ ~r_frame.placeholder
  /\ r_frame.segmentDetail = 1
  /\ IsScenarioWindow(r_visibleSegments)
  /\ r_frame.size.width = 400 /\ r_frame.size.height = 300
  /\ Len(r_frame.polyline) = 3

\* C13: with stride k in {1, 2, 3} and a window of n >= 2 samples the
\* polyline visits exactly the window indices 0, k, 2k, ... below n, in
\* increasing order.
C13_PolylineStride ==
  (r_frame.painted /\ ~r_frame.placeholder /\ Len(r_visibleSegments) >= 2) =>
    LET k == r_frame.segmentDetail
        n == Len(r_visibleSegments)
        visited == r_frame.polyIndices
    IN /\ k \in {1, 2, 3}
       /\ Len(visited) = ((n - 1) \div k) + 1
       /\ \A j \in 1..Len(visited) : visited[j] = (j - 1) * k
       /\ Len(r_frame.polyline) = Len(visited)

\* A window of three samples has been painted with stride 2: indices 0, 2.
C13_Witness ==
  /\ surface = "route"
  /\ r_frame.painted /\ ~r_frame.placeholder
  /\ Len(r_visibleSegments) = 3
  /\ r_frame.segmentDetail = 2
  /\ r_frame.polyIndices = << 0, 2 >>

\* C14: every route frame painted while a current position exists includes
\* the current-position marker.
C14_CurrentMarkerAlways ==
  [][(r_painted' /\ r_currentPosition.present)
       => r_frame'.current # << >>]_vars

\* C15: the weather sparkline is drawn from the last min(20, n) history
\* samples in their original order; with fewer than 2 samples no stroke is
\* made, while the temperature bar and the humidity ring are still painted.
C15_SparklineWindow ==
  (surface = "weather" /\ w_frame.painted /\ ~w_frame.placeholder) =>
    LET n == w_histLen
        drawn == w_frame.graphSamples
    IN /\ w_frame.readouts
       /\ n < 2 => drawn = << >>
       /\ n >= 2 =>
            /\ Len(drawn) = Min(20, n)
            /\ \A j \in 1..Len(drawn) : drawn[j] = n - Len(drawn) + j

\* A history longer than the graph window has been plotted.
C15_Witness ==
  /\ surface = "weather"
  /\ w_frame.painted /\ ~w_frame.placeholder
  /\ w_histLen = 21
  /\ Len(w_frame.graphSamples) = 20
  /\ w_frame.graphSamples[1] = 2

\* C16: a paint of a surface that has no primary data (no weather sample, no
\* location, an empty rendering window) produces only the background and the
\* placeholder caption and, on the weather surface, leaves no frame request;
\* a paint of the effect that runs once the data has been committed produces
\* the data layers, and on the weather surface it requests the next frame.
C16_PlaceholderUntilData ==
  [][/\ (W_Effects /\ w_painted') =>
          IF ~w_weatherData.present
            THEN /\ w_frame'.placeholder
                 /\ w_frame'.particleCount = 0
                 /\ ~w_frame'.graph /\ ~w_frame'.readouts
                 /\ w_rafs' = {}
            ELSE /\ ~w_frame'.placeholder
                 /\ w_frame'.readouts
                 /\ w_frame'.particleCount > 0
                 /\ \E r \in w_rafs' : r.id = w_animationRef'
     /\ (M_Effects /\ m_painted') =>
          IF ~m_location
            THEN m_frame'.layers = << "background", "grid", "placeholder" >>
            ELSE /\ ~m_frame'.placeholder
                 /\ \E k \in 1..Len(m_frame'.layers) :
                      m_frame'.layers[k] = "marker"
     /\ (R_Effects /\ r_painted') =>
          IF r_visibleSegments = << >>
            THEN r_frame'.layers = << "grid", "placeholder" >>
            ELSE /\ ~r_frame'.placeholder
                 /\ Len(r_visibleSegments) > 1 =>
                      Len(r_frame'.polyline) > 0 /\ Len(r_frame'.start) = 1
    ]_vars

\* A route surface, whose first paint is the placeholder, has painted its
\* polyline after the window was filled by the observer callback.
C16_Witness ==
  /\ surface = "route"
  /\ r_painted /\ ~r_frame.placeholder
  /\ Len(r_visibleSegments) = 2
  /\ Len(r_frame.polyline) = 2

\* The last Min(k, n) elements of q, in their order in q.
LastInOrder(q, k) ==
  LET n == Len(q)
      m == IF n < k THEN n ELSE k
  IN [j \in 1..m |-> q[n - m + j]]

InclusiveLowerColor(kmh) ==
  IF FGreater(Fifteen, kmh) THEN "green"
  ELSE IF FGreater(kmh, TwentyFive) THEN "red"
  ELSE "orange"

\* C18: a route speed dot is coloured by speedKmh = speedMps * 3.6: green
\* when speedKmh < 15, orange when 15 <= speedKmh <= 25, red when
\* speedKmh > 25.  Of two adjacent speeds the lower has a speedKmh below 15
\* and the higher one above 15, so no speed has a speedKmh of exactly 15.
C18_SpeedDotColor ==
  (r_frame.painted /\ ~r_frame.placeholder /\ Len(r_visibleSegments) > 1) =>
    LET moving == SelectSeq(r_visibleSegments, HasPositiveSpeed)
    IN /\ Len(r_frame.dots) = Len(moving)
       /\ \A k \in 1..Len(moving) :
            r_frame.dots[k].color =
              InclusiveLowerColor(speedKmh[moving[k].speed[1]])
       /\ FGreater(Fifteen, speedKmh[MpsBelow15])
       /\ FGreater(speedKmh[MpsNearest15], Fifteen)

\* Dots have been painted for the speeds nearest to 15 km/h and 25 km/h,
\* both orange.
C18_Witness ==
  /\ surface = "route"
  /\ r_frame.painted /\ ~r_frame.placeholder
  /\ Len(r_visibleSegments) = 2
  /\ r_visibleSegments[1].speed = Some(MpsNearest15)
  /\ r_visibleSegments[2].speed = Some(MpsNearest25)
  /\ Len(r_frame.dots) = 2
  /\ r_frame.dots[1].color = "orange"
  /\ r_frame.dots[2].color = "orange"

\* The layer is one of those the map frame holds.
M_HasLayer(layer) ==
  \E k \in 1..Len(m_frame.layers) : m_frame.layers[k] = layer

\* C19: on the map surface the temperature zones and the wind arrows are
\* painted only when the network classification is neither slow-2g nor 2g
\* and a weather sample is present; the wind arrows additionally require
\* windSpeed > 0; the location marker and the caption are painted at every
\* tier.
C19_MapOverlays ==
  (surface = "map" /\ m_painted /\ m_location) =>
    LET overlaysOn == m_networkInfo \notin {"slow-2g", "2g"}
    IN /\ M_HasLayer("zones") <=> (overlaysOn /\ m_weatherData.present)
       /\ M_HasLayer("windArrows")
            <=> (overlaysOn /\ m_weatherData.present
                   /\ m_weatherData.windSpeed > 0)
       /\ M_HasLayer("marker") /\ M_HasLayer("caption")

\* A map frame on a 2g connection with a windy sample: marker and caption,
\* no zones and no arrows.
C19_Witness ==
  /\ surface = "map" /\ m_painted /\ m_location
  /\ m_networkInfo = "2g"
  /\ m_weatherData.present /\ m_weatherData.windSpeed > 0
  /\ m_frame.layers = << "background", "grid", "marker", "caption" >>

\* C20: location is acquired automatically exactly once, at startup;
\* afterwards a new acquisition happens only on an explicit user action, so a
\* step that starts an acquisition is the first render or the Use GPS button.
C20_LocationAcquiredOnce ==
  [][a_geo' > a_geo => (~a_started \/ A_UseGps)]_vars

\* C21: after an explicit location selection (here of Tokyo, which nothing
\* but a selection sets), once all in-flight fetches have completed, the
\* current weather and every history sample were fetched for the selected
\* location.
C21_OnlySelectedLocationAfterReset ==
  (a_location = "TKY" /\ a_fetches = << >>) =>
    /\ a_currentWeather.loc = a_location
    /\ \A k \in 1..Len(a_weatherHistory) :
         a_weatherHistory[k].loc = a_location

\* C22: whenever the weather history exceeds 24 samples it is eventually
\* trimmed back to 24, and once no new sample arrives the loop history
\* change -> background task -> trim -> history change comes to rest: no
\* render is pending and no background task is scheduled.
C22_TrimmedAndQuiescent ==
  /\ (Len(a_weatherHistory) > HistoryLimit)
       ~> (Len(a_weatherHistory) = HistoryLimit)
  /\ <>[](/\ a_tasks = << >>
          /\ ~a_dirtyHist
          /\ Len(a_weatherHistory) <= HistoryLimit)

\* The history has outgrown the limit and was trimmed: it holds 24 samples,
\* the oldest is no longer the first one, and the loop is at rest.
C22_Witness ==
  /\ surface = "app"
  /\ Len(a_weatherHistory) = HistoryLimit
  /\ a_weatherHistory[1].id > 1
  /\ a_tasks = << >>
  /\ ~a_dirtyHist

\* C23: in every rendered state where the current weather is non-null it is
\* the last entry of the weather history, so the trend of the stats panel is
\* the difference between the two newest samples, and 0 when the history has
\* fewer than 2 samples.
C23_CurrentIsNewest ==
  (surface = "app" /\ a_currentWeather # NoSample) =>
    LET n == Len(a_weatherHistory)
        trend == calculateTrend(a_currentWeather.timestamp, a_weatherHistory)
    IN /\ n > 0
       /\ a_weatherHistory[n] = a_currentWeather
       /\ n < 2 => trend = 0
       /\ n >= 2 => trend = a_weatherHistory[n].timestamp
                              - a_weatherHistory[n - 1].timestamp

\* Two samples taken at different times: the trend is their difference.
C23_Witness ==
  /\ surface = "app"
  /\ Len(a_weatherHistory) = 2
  /\ a_currentWeather = a_weatherHistory[2]
  /\ a_weatherHistory[1].timestamp = 0
  /\ a_weatherHistory[2].timestamp = 1
  /\ calculateTrend(a_currentWeather.timestamp, a_weatherHistory) = 1

\* The projected point c lies on the surface.
InsideSurface(c, size) ==
  /\ 0 <= c.xn /\ c.xn <= size.width * c.xd
  /\ 0 <= c.yn /\ c.yn <= size.height * c.yd

\* C24: in every route frame the current-position marker is painted at a
\* coordinate inside the surface bounds, for every combination of rendering
\* window and current position.
C24_CurrentMarkerOnSurface ==
  (r_frame.painted /\ ~r_frame.placeholder) =>
    \A k \in 1..Len(r_frame.current) :
      InsideSurface(r_frame.current[k], r_frame.size)

\* C25: on the route surface no speed dot is painted at the tier whose
\* secondary overlays are off (slow-2g / 2g).
C25_NoDotsOnSlowTier ==
  (r_frame.painted /\ ~r_frame.placeholder
     /\ r_frame.net \in {"slow-2g", "2g"})
    => r_frame.dots = << >>

\* The place of a layer in the fixed z-order of a route frame.
ZOrder(layer) ==
  CASE layer = "grid" -> 1
    [] layer = "polyline" -> 2
    [] layer = "start" -> 3
    [] layer = "dots" -> 4
    [] layer = "current" -> 5
    [] layer = "caption" -> 6
    [] OTHER -> 0

\* C26: within one route frame the layers are painted in the order grid,
\* polyline and START marker, speed dots, current-position marker, network
\* caption; in particular the speed dots come before the current-position
\* marker.
C26_RouteZOrder ==
  (r_frame.painted /\ ~r_frame.placeholder) =>
    \A i, j \in 1..Len(r_frame.layers) :
      i < j => ZOrder(r_frame.layers[i]) < ZOrder(r_frame.layers[j])

\* C27: whenever the route rendering window is non-empty the frame contains
\* a START marker at the projected coordinate of the window's first sample,
\* including when the window holds exactly one sample.
C27_StartMarkerForEveryWindow ==
  (r_painted /\ Len(r_visibleSegments) > 0) =>
    /\ ~r_frame.placeholder
    /\ r_frame.start =
         << toCanvasCoords(R_Bounds(r_visibleSegments), r_frame.size,
                           r_visibleSegments[1].lat,
                           r_visibleSegments[1].lng) >>

\* C28: in every reachable state at most one auto-update interval timer is
\* active (the model holds the one interval of weatherUpdateInterval), it
\* exists only while a location is set, and it refers to the current
\* location.
C28_TimerFollowsLocation ==
  a_timer # None =>
    /\ a_location # "none"
    /\ a_timer[1] = a_location

\* C29: after every change event of the connection, as after start-up, the
\* network classification the app holds and hands to the surfaces equals
\* the connection's effectiveType.
C29_ClassificationFollowsConnection ==
  (a_started /\ a_hasConnection) =>
    effectiveType(a_networkInfo, a_connType) = a_connType

\* The list has no two entries with the same (lat, lng).
NoSamePlaceTwice(list) ==
  \A i, j \in 1..Len(list) : SamePlace(list[i], list[j]) => i = j

\* C30: starting from an empty recent-locations list, after any sequence of
\* selections and clears the list holds at most 5 entries, no two of them
\* with the same (lat, lng), and the persisted copy equals the list (absent
\* when the list is empty after a clear or at the start); a selection puts
\* the selected location first and keeps the others in their previous
\* relative order.
C30_RecentLocations ==
  /\ [](l_mounted =>
          /\ Len(l_recentLocations) <= 5
          /\ NoSamePlaceTwice(l_recentLocations)
          /\ IF l_recentLocations = << >>
               THEN l_persisted = None
               ELSE /\ l_persisted # None
                    /\ JSONparse(l_persisted[1]) = l_recentLocations)
  /\ [][(l_mounted /\ l_mounted' /\ l_recentLocations' # << >>) =>
          LET first == l_recentLocations'[1]
              Other(loc) == ~SamePlace(loc, first)
              others == SelectSeq(l_recentLocations, Other)
          IN /\ first \in Selectable
             /\ Tail(l_recentLocations') = SubSeq(others, 1, Min(4, Len(others)))]_vars

\* A full list after a selection that moved an entry of the list to the
\* front and a selection that pushed the oldest entry out.
C30_Witness ==
  /\ l_mounted
  /\ Len(l_recentLocations) = 5
  /\ l_recentLocations[1] = sampleCities[1]
  /\ l_recentLocations[2] = sampleCities[6]
  /\ l_recentLocations[5] = sampleCities[3]
  /\ l_persisted = Some(JSONstringify(l_recentLocations))

====
